---- MODULE Spec2Model ----
(***************************************************************************)
(* FGO-Sprite: the template aligner (src/services/cvService.ts) and the    *)
(* batch alignment orchestrator of the grid workflow (src/App.tsx, first   *)
(* App component).                                                         *)
(*                                                                         *)
(* Numbers.  targetScale is the calibration slider value, a multiple of    *)
(* 1/2 in the model; it is held doubled (targetScale = 2 means 1.0).  The  *)
(* value returned by the aligner is held doubled too (result = <<2*dx,     *)
(* 2*dy>>), so that bestX - ax*targetScale stays an integer.  A pixel is   *)
(* <<r, g, b, a>>; a pixel buffer is a function from the pixel index       *)
(* py*width + px (the code's byte index divided by 4) to a pixel.          *)
(***************************************************************************)
EXTENDS Integers, Sequences, FiniteSets, TLC

VARIABLES
    \* ---- autoAlignTemplate: arguments and buffers
    anchorInPatchPx,   \* [ax, ay, aw, ah]
    targetScale,       \* doubled
    searchW, searchH,  \* Math.floor(targetRectPx.tw), Math.floor(targetRectPx.th)
    tplData,           \* template buffer after the resampling drawImage
    searchData,        \* search buffer
    \* ---- autoAlignTemplate: locals
    pc,                \* "start" | "row" | "suspended" | "done" | "infeasible" | "threw"
    dy,
    bestX, bestY,
    minDiff,           \* <<diff, weight>>, weight 0 stands for Infinity
    scores,            \* offset <<dx, dy>> -> <<diff, weight>> of every offset evaluated
    rowsRun,           \* rows of the dy loop evaluated since the call last had control back
    suspensions,       \* awaits of line 131 taken
    result,            \* NoResult, or <<2*dx, 2*dy>> of the resolved promise
    \* ---- App: React state (App.tsx:104-131)
    baseImage,         \* 0 for null, else the number of the file shown
    imgElement,        \* 0 for null, else the number of the decoded image
    analysis,          \* 0 for null, else the number of the image it was scanned from
    isAligning,
    alignProgress,
    selectedIdx,
    currentStep,       \* "LAYOUT" | "SIZE" | "ALIGN"
    gridConfig,        \* [originX, originY, spacingX, spacingY, patchW, patchH, cols, rows]
    patchOffsets,      \* sequence; JS index i is position i + 1
    \* ---- App: asynchronous work in flight
    runs,              \* the handleBatchAutoAlign invocations, each with its closure
    readers,           \* files whose FileReader has not fired onload yet
    images,            \* images whose onload has not fired yet
    filesChosen,       \* files handed to processFile so far
    gridEdits,         \* changes of the cols and rows inputs so far
    presses,           \* presses of the batch-align button so far
    \* ---- App: the decoded image and the scan result
    naturalWidth,      \* imgElement.naturalWidth, 0 while imgElement is null
    naturalHeight,     \* imgElement.naturalHeight, 0 while imgElement is null
    mainFace,          \* analysis.mainFace, [x, y, w, h] in normalized units
    mainBody,          \* analysis.mainBody
    \* ---- App: calibration, preview and export
    calibration,       \* [offsetX, offsetY, scale], scale in tenths
    previewAlpha,      \* in hundredths
    isExporting,
    exportProgress,
    exportRuns,        \* the handleExportAll invocations, each with its closure
    lastRender,        \* what the last draw or export put on its canvas
    downloads,         \* the files handed to the browser, in order
    \* ---- App of the detector workflow (App.tsx:566-586), where it differs
    workflowStep,      \* its currentStep, 1 | 2 | 3
    targetFace,        \* NoRect for null
    studioCalibration, \* its calibration, offsets in raw pixels, scale in tenths
    patches,           \* analysis.patches
    selectedPatchIdx,  \* -1 for null
    overlayOpacity,    \* in hundredths
    enableMask,
    useMasterSize,
    masterSize,        \* [w, h]
    downloadRuns,      \* the downloadAll invocations, each with its closure
    \* ---- one value carried between raw pixels and normalized units
    trip,              \* the Numbers it went through, each with its unit
    \* ---- App: the match anchor of the patch preview (App.tsx:122)
    anchorRect,        \* [x, y, w, h] in thousandths of the patch
    \* ---- App of the detector workflow: the analysis (App.tsx:572-575, 617-640)
    service,           \* the analyzeFgoSpriteSheet built in: "geminiService" | "part_004" | "part_005"
    apiKey,            \* what getApiKey finds: "set" | "missing"
    isAnalyzing,
    analysisProgress,
    errorMessage,      \* NoError for null, else the error whose message is shown
    progressTimers,    \* the calls whose setInterval of line 621 is not cleared
    call,              \* the startAnalysis invocation last started, with its closure
    callsMade,         \* presses of the start-analysis button so far
    stepTimers,        \* the setTimeout callbacks of line 633 not yet run
    analysisLog        \* the images whose result setAnalysis of line 625 stored, in order

alignVars == <<anchorInPatchPx, targetScale, searchW, searchH, tplData, searchData,
               pc, dy, bestX, bestY, minDiff, scores, rowsRun, suspensions, result>>

appVars == <<baseImage, imgElement, analysis, isAligning, alignProgress, selectedIdx,
             currentStep, gridConfig, patchOffsets, runs, readers, images, filesChosen,
             gridEdits, presses>>

imageVars == <<naturalWidth, naturalHeight, mainFace, mainBody>>

renderVars == <<calibration, previewAlpha, lastRender, downloads>>

exportVars == <<isExporting, exportProgress, exportRuns>>

studioVars == <<workflowStep, targetFace, studioCalibration, patches, selectedPatchIdx, overlayOpacity,
                enableMask, useMasterSize, masterSize, downloadRuns>>

\* what the handlers of the grid workflow up to the batch alignment leave alone
anchorVars == <<anchorRect>>

detectorVars == <<service, apiKey, isAnalyzing, analysisProgress, errorMessage,
                  progressTimers, call, callsMade, stepTimers, analysisLog>>

moreVars == <<anchorVars, detectorVars>>

restVars == <<renderVars, exportVars, studioVars, trip, moreVars>>

\* what the aligner's steps and the App's handlers leave alone
nonAlignVars == <<appVars, imageVars, restVars>>
nonAppVars == <<alignVars, imageVars, restVars>>

vars == <<alignVars, appVars, imageVars, restVars>>

----------------------------------------------------------------------------
(* Bounds of the inputs *)

MaxAnchor == 2          \* aw, ah range over 0..MaxAnchor
MaxSearchW == 4         \* searchW ranges over 0..MaxSearchW
MaxSearchH == 3         \* searchH ranges over 0..MaxSearchH
TallSearchH == 102      \* height of the one-column search regions

Scales == {1, 2, 3}     \* targetScale 0.5, 1.0, 1.5 (slider range, App.tsx:459)
AnchorOrigins == {<<0, 0>>, <<1, 2>>}

Transparent == <<0, 0, 0, 0>>
AtThreshold == <<9, 9, 9, 40>>
Opaque == <<30, 0, 0, 41>>
Black == <<0, 0, 0, 255>>
Palette == {Transparent, AtThreshold, Opaque, Black}

NoResult == <<>>
Infinity == <<1, 0>>

----------------------------------------------------------------------------
(* Arithmetic *)

Abs(x) == IF x < 0 THEN -x ELSE x

Max(a, b) == IF a >= b THEN a ELSE b

Min(a, b) == IF a <= b THEN a ELSE b

\* Math.round(n / 2) for n >= 0: round half up
RoundHalf(n) == (n + 1) \div 2

\* the template width without the floor of one pixel
tplWUnclamped == RoundHalf(anchorInPatchPx.aw * targetScale)

\* lines 59-60
tplW == Max(1, RoundHalf(anchorInPatchPx.aw * targetScale))
tplH == Max(1, RoundHalf(anchorInPatchPx.ah * targetScale))

\* lines 90-91
limitX == searchW - tplW
limitY == searchH - tplH

\* line 124: score < minDiff, both held as <<diff, weight>>
ScoreLess(s, m) == IF m[2] = 0 THEN TRUE ELSE s[1] * m[2] < m[1] * s[2]

\* the threshold test with >= in place of >
AlphaCountsAtThreshold(alpha) == alpha >= 40

\* line 110
AlphaCounts(alpha) == alpha > 40

\* lines 105-106: the step of the two sampling loops
SampleStep == 2

\* line 131
YieldEvery == 50

\* the await taken every 100 rows only
ShouldYieldRarely(row) == row % (2 * YieldEvery) = 0

ShouldYield(row) == row % YieldEvery = 0

----------------------------------------------------------------------------
(* The SAD loops, lines 99-130 *)

\* lines 113-115
PixelDiff(t, s) == Abs(t[1] - s[1]) + Abs(t[2] - s[2]) + Abs(t[3] - s[3])

RECURSIVE PxLoop(_, _, _, _, _)
PxLoop(px, py, dx, row, acc) ==
    IF px >= tplW THEN acc
    ELSE LET t == tplData[py * tplW + px]
             s == searchData[(py + row) * searchW + (px + dx)]
         IN  PxLoop(px + SampleStep, py, dx, row,
                    IF AlphaCounts(t[4])
                    THEN <<acc[1] + PixelDiff(t, s), acc[2] + 1>>
                    ELSE acc)

RECURSIVE PyLoop(_, _, _, _)
PyLoop(py, dx, row, acc) ==
    IF py >= tplH THEN acc
    ELSE PyLoop(py + SampleStep, dx, row, PxLoop(0, py, dx, row, acc))

\* <<diff, weight>> of one offset, lines 101-120
OffsetScore(dx, row) == PyLoop(0, dx, row, <<0, 0>>)

\* the replacement test with <= in place of <
BetterOrEqual(s, b) ==
    s[2] > 0 /\ (ScoreLess(s, b.minDiff) \/ s[1] * b.minDiff[2] = b.minDiff[1] * s[2])

\* lines 122-129
Better(s, b) == s[2] > 0 /\ ScoreLess(s, b.minDiff)

RECURSIVE DxLoop(_, _, _)
DxLoop(dx, row, b) ==
    IF dx > limitX THEN b
    ELSE LET s == OffsetScore(dx, row)
         IN  DxLoop(dx + 1, row,
                    IF Better(s, b)
                    THEN [minDiff |-> s, bestX |-> dx, bestY |-> row]
                    ELSE b)

----------------------------------------------------------------------------
(* Input buffers *)

\* A template of the given size: the sampled cells alternate between p0 and
\* p1, every other cell is p1.
TemplateOf(w, h, p0, p1) ==
    [i \in 0..(w * h - 1) |->
        LET px == i % w
            py == i \div w
        IN  IF px % 2 = 0 /\ py % 2 = 0 /\ ((px \div 2) + (py \div 2)) % 2 = 0
            THEN p0 ELSE p1]

\* A search region showing bg everywhere
Uniform(w, h, bg) == [i \in 0..(w * h - 1) |-> bg]

\* A search region showing a copy of template t (tw x th) at (ox, oy) over bg
Planted(w, h, bg, t, tw, th, ox, oy) ==
    [i \in 0..(w * h - 1) |->
        LET x == i % w
            y == i \div w
        IN  IF x >= ox /\ x < ox + tw /\ y >= oy /\ y < oy + th
            THEN t[(y - oy) * tw + (x - ox)] ELSE bg]

\* A search region showing bg everywhere but for one pixel fg at (x, y)
Spot(w, h, bg, fg, x, y) ==
    [i \in 0..(w * h - 1) |-> IF i = y * w + x THEN fg ELSE bg]

SearchBuffers(w, h, t, tw, th) ==
    IF w = 0 \/ h = 0 THEN {<<>>}
    ELSE {Uniform(w, h, bg) : bg \in {Transparent, Opaque}}
         \cup {Spot(w, h, Opaque, Transparent, x, y) : x \in 0..(w - 1), y \in 0..(h - 1)}
         \cup IF w < tw \/ h < th THEN {}
              ELSE {Planted(w, h, bg, t, tw, th, ox, oy) :
                        bg \in {Transparent, Opaque},
                        ox \in 0..(w - tw), oy \in 0..(h - th)}

----------------------------------------------------------------------------
(* App: state and helpers *)

MaxCols == 2            \* the cols input ranges over 1..MaxCols
MaxRows == 1            \* the rows input ranges over 1..MaxRows
MaxRuns == 2            \* handleBatchAutoAlign invocations that can be in flight
MaxFiles == 1           \* files handed to processFile in one behaviour
MaxGridEdits == 1       \* changes of the cols and rows inputs in one behaviour
MaxPresses == 2         \* presses of the batch-align button in one behaviour
MaxSelect == 1          \* the thumbnails 0..MaxSelect are the ones clicked
MaxExports == 1         \* presses of each export-all button in one behaviour
MaxCalls == 2           \* presses of the start-analysis button in one behaviour
MaxUploads == 2         \* files handed to handleFileUpload in one behaviour
MaxTicks == 1           \* periods of the progress interval that one analysis lasts
MaxSingles == 1         \* presses of the "export current" button in one behaviour
Precision == 8          \* bits of a Number's significand kept (a double keeps 53)
MaxValue == 60          \* the values carried are the integers -MaxValue..MaxValue
TripLength == 3         \* the value, the value converted, and the value brought back

\* App.tsx:127
DefaultCols == 4
DefaultRows == 2

Steps == {"LAYOUT", "SIZE", "ALIGN"}

\* currentPatches.length, App.tsx:159-169
PatchCount(g) == g.cols * g.rows

ZeroOffset == [dx |-> 0, dy |-> 0]

\* App.tsx:171-175, run by React when currentPatches.length has changed
ResetOffsetsEffect(offs, n) ==
    IF Len(offs) # n THEN [k \in 1..n |-> ZeroOffset] ELSE offs

\* App.tsx:207-223: the offset autoAlignTemplate computes for patch i of grid g
\* on image img, brought to normalized units.  The aligner is a function of
\* its arguments, so the offset is named by what it was computed from.
\* Its value, which the renders and the exports read, is a function of them
\* too: the model takes 5 * (i + 1) to the right and 10 * (i + 1) up.
AlignedOffset(img, g, i) ==
    [img |-> img, grid |-> g, idx |-> i, dx |-> 5 * (i + 1), dy |-> -10 * (i + 1)]

\* an index a JS array has no element at
Hole == [hole |-> TRUE]

\* App.tsx:220, newOffsets[i] = v on a JS array
AssignAt(arr, i, v) ==
    [k \in 1..Max(Len(arr), i + 1) |->
        IF k = i + 1 THEN v ELSE IF k <= Len(arr) THEN arr[k] ELSE Hole]

\* App.tsx:204, Math.round((i / n) * 100)
Percent(i, n) == (200 * i + n) \div (2 * n)

\* the images loaded: the width and height of the bitmap, and the first row
\* of the 1000 px wide rendition that scanSpriteSheet finds dense
\* (cvService.ts:31-34)
Sheets == {[width |-> 64, height |-> 64, minY |-> 0],
           [width |-> 1000, height |-> 2000, minY |-> 40]}

NoRect == [x |-> 0, y |-> 0, w |-> 0, h |-> 0]

\* cvService.ts:38, the mainFace scanSpriteSheet gives every image
ScannedFace == [x |-> 350, y |-> 150, w |-> 300, h |-> 300]

\* cvService.ts:37 and App.tsx:150
ScannedBody(minY) == [x |-> 0, y |-> minY, w |-> 1000, h |-> 780]

\* App.tsx:115, previewAlpha 0.6
DefaultPreviewAlpha == 60

NoRender == [by |-> "none", final |-> FALSE, idx |-> -1, ops |-> <<>>]

\* App.tsx:122
DefaultAnchor == [x |-> 400, y |-> 100, w |-> 200, h |-> 120]

\* App.tsx:126, patchW and patchH
DefaultPatchSize == 180

\* App.tsx:130, calibration.scale 1.0 (in tenths)
DefaultScale == 10

\* App.tsx:130
DefaultCalibration == [offsetX |-> 0, offsetY |-> 0, scale |-> DefaultScale]

\* App.tsx:352, the least width and height FACE_RESIZE leaves
MinFaceSize == 10

\* Math.floor(toRawPx(val)), App.tsx:117-120 and cvService.ts:77-78
FloorRawPx(val, width) == (val * width) \div 1000

\* Math.round(n / d) for n >= 0 and d > 0
RoundDiv(n, d) == (2 * n + d) \div (2 * d)

\* App.tsx:214-215 and cvService.ts:59-60: the side of the template for an
\* anchor side a (normalized to the patch) and a patch side p, with the scale
\* in tenths
TemplateSide(a, p, width, scale) ==
    Max(1, RoundDiv(a * p * width * scale, 10000000))

\* cvService.ts:77-96 for the call of App.tsx:207-218: what the call ends with
CallOutcome(width, face, g, scale) ==
    LET sW == FloorRawPx(face.w, width)
        sH == FloorRawPx(face.h, width)
        tW == TemplateSide(DefaultAnchor.w, g.patchW, width, scale)
        tH == TemplateSide(DefaultAnchor.h, g.patchH, width, scale)
    IN  IF sW = 0 \/ sH = 0 THEN "threw"
        ELSE IF sW - tW < 0 \/ sH - tH < 0 THEN "infeasible"
        ELSE "searched"

\* App.tsx:123-128
DefaultGrid ==
    [originX |-> 200, originY |-> 850, spacingX |-> 180, spacingY |-> 180,
     patchW |-> DefaultPatchSize, patchH |-> DefaultPatchSize,
     cols |-> DefaultCols, rows |-> DefaultRows]

\* the patch of row r and column c with the two spacings taken for each other
PatchAtSwapped(g, r, c) ==
    [x |-> g.originX + c * g.spacingY - g.patchW \div 2,
     y |-> g.originY + r * g.spacingX - g.patchH \div 2,
     w |-> g.patchW, h |-> g.patchH]

\* App.tsx:163-165; the grids of the model have even patchW and patchH
PatchAt(g, r, c) ==
    [x |-> g.originX + c * g.spacingX - g.patchW \div 2,
     y |-> g.originY + r * g.spacingY - g.patchH \div 2,
     w |-> g.patchW, h |-> g.patchH]

\* App.tsx:162-166
RECURSIVE ColLoop(_, _, _, _)
ColLoop(g, r, c, ps) ==
    IF c >= g.cols THEN ps ELSE ColLoop(g, r, c + 1, Append(ps, PatchAt(g, r, c)))

\* App.tsx:161-167
RECURSIVE RowLoop(_, _, _)
RowLoop(g, r, ps) ==
    IF r >= g.rows THEN ps ELSE RowLoop(g, r + 1, ColLoop(g, r, 0, ps))

\* App.tsx:159-169
currentPatches == RowLoop(gridConfig, 0, <<>>)

IdleRun == [pc |-> "idle", i |-> 0, img |-> 0, grid |-> DefaultGrid,
            newOffsets |-> <<>>, width |-> 0, face |-> NoRect]

\* App.tsx:567-586
StudioStart ==
    /\ workflowStep = 1
    /\ targetFace = NoRect
    /\ studioCalibration = DefaultCalibration
    /\ patches = <<>>
    /\ selectedPatchIdx = -1
    /\ overlayOpacity = 100
    /\ enableMask = TRUE
    /\ useMasterSize = TRUE
    /\ masterSize = [w |-> 100, h |-> 100]
    /\ downloadRuns = <<>>

NoError == [kind |-> "none", mentions |-> {}]

NoInvocation ==
    [image |-> 0, useFlash |-> FALSE, requests |-> <<>>, firstError |-> NoError,
     pc |-> "none", error |-> NoError]

\* App.tsx:572-575: no analysis has been started
NoAnalysisRun ==
    /\ isAnalyzing = FALSE
    /\ analysisProgress = 0
    /\ errorMessage = NoError
    /\ progressTimers = {}
    /\ call = NoInvocation
    /\ callsMade = 0
    /\ stepTimers = 0
    /\ analysisLog = <<>>

\* App.tsx:563 imports services/geminiService.ts; the key is configured
ServiceBuilt == service = "geminiService" /\ apiKey = "set"

\* App.tsx:104-131 and the effect of the first render
AppMounted ==
    /\ baseImage = 0
    /\ imgElement = 0
    /\ analysis = 0
    /\ isAligning = FALSE
    /\ alignProgress = 0
    /\ selectedIdx = 0
    /\ currentStep = "LAYOUT"
    /\ gridConfig = DefaultGrid
    /\ patchOffsets = ResetOffsetsEffect(<<>>, DefaultCols * DefaultRows)
    /\ runs = [r \in 1..MaxRuns |-> IdleRun]
    /\ readers = {}
    /\ images = {}
    /\ filesChosen = 0
    /\ gridEdits = 0
    /\ presses = 0
    /\ naturalWidth = 0
    /\ naturalHeight = 0
    /\ mainFace = NoRect
    /\ mainBody = NoRect
    /\ calibration = DefaultCalibration
    /\ previewAlpha = DefaultPreviewAlpha
    /\ isExporting = FALSE
    /\ exportProgress = 0
    /\ exportRuns = <<>>
    /\ lastRender = NoRender
    /\ downloads = <<>>
    /\ StudioStart
    /\ trip = <<>>
    /\ anchorRect = DefaultAnchor
    /\ NoAnalysisRun

AppStart == AppMounted /\ ServiceBuilt

\* No call of autoAlignTemplate is looked into
NoCall ==
    /\ anchorInPatchPx = [ax |-> 0, ay |-> 0, aw |-> 0, ah |-> 0]
    /\ targetScale = 2
    /\ searchW = 0
    /\ searchH = 0
    /\ tplData = <<>>
    /\ searchData = <<>>
    /\ pc = "none"
    /\ dy = 0
    /\ bestX = 0
    /\ bestY = 0
    /\ minDiff = Infinity
    /\ scores = <<>>
    /\ rowsRun = 0
    /\ suspensions = 0
    /\ result = NoResult

----------------------------------------------------------------------------
(* autoAlignTemplate *)

CallStart ==
    /\ pc = "start"
    /\ dy = 0
    /\ bestX = 0
    /\ bestY = 0
    /\ minDiff = Infinity
    /\ scores = <<>>
    /\ rowsRun = 0
    /\ suspensions = 0
    /\ result = NoResult

\* lines 64-72: drawImage paints nothing when the source rectangle has no
\* width or no height, and the canvas stays transparent
TemplatePixels ==
    IF anchorInPatchPx.aw = 0 \/ anchorInPatchPx.ah = 0 THEN {Transparent} ELSE Palette

\* Calls on small regions with every template of the family
InitSmall ==
    /\ \E aw \in 0..MaxAnchor, ah \in 0..MaxAnchor, o \in AnchorOrigins :
          anchorInPatchPx = [ax |-> o[1], ay |-> o[2], aw |-> aw, ah |-> ah]
    /\ targetScale \in Scales
    /\ searchW \in 0..MaxSearchW
    /\ searchH \in 0..MaxSearchH
    /\ \E p0 \in TemplatePixels, p1 \in TemplatePixels :
          tplData = TemplateOf(tplW, tplH, p0, p1)
    /\ searchData \in SearchBuffers(searchW, searchH, tplData, tplW, tplH)
    /\ CallStart
    /\ AppStart

\* Calls with a one-pixel template on a one-column search region taller than
\* two yield periods
InitTall ==
    /\ \E o \in AnchorOrigins :
          anchorInPatchPx = [ax |-> o[1], ay |-> o[2], aw |-> 1, ah |-> 1]
    /\ targetScale = 2
    /\ searchW = 1
    /\ searchH \in {TallSearchH - 1, TallSearchH}
    /\ \E p0 \in {Transparent, Opaque} : tplData = TemplateOf(1, 1, p0, p0)
    /\ \E bg \in {Transparent, Opaque}, oy \in {0, searchH - 1} :
          searchData = Planted(1, searchH, bg, tplData, 1, 1, 0, oy)
    /\ CallStart
    /\ AppStart

InitAlign == InitSmall \/ InitTall

\* lines 53-96: the two extractions and the feasibility test.  getImageData
\* raises IndexSizeError when the width or the height it is given is 0
\* (line 83); the template extraction of line 72 always has tplW, tplH >= 1.
Extract ==
    /\ pc = "start"
    /\ IF searchW = 0 \/ searchH = 0
       THEN pc' = "threw" /\ result' = result
       ELSE IF limitX < 0 \/ limitY < 0
            THEN pc' = "infeasible" /\ result' = <<0, 0>>
            ELSE pc' = "row" /\ result' = result
    /\ UNCHANGED <<anchorInPatchPx, targetScale, searchW, searchH, tplData, searchData,
                   dy, bestX, bestY, minDiff, scores, rowsRun, suspensions>>
    /\ UNCHANGED nonAlignVars

\* lines 99-131: one row of the dy loop, up to the await of line 131
Row ==
    /\ pc = "row"
    /\ dy <= limitY
    /\ LET b == DxLoop(0, dy, [minDiff |-> minDiff, bestX |-> bestX, bestY |-> bestY])
       IN  /\ minDiff' = b.minDiff
           /\ bestX' = b.bestX
           /\ bestY' = b.bestY
    /\ scores' = [o \in DOMAIN scores \cup {<<x, dy>> : x \in 0..limitX} |->
                     IF o \in DOMAIN scores THEN scores[o] ELSE OffsetScore(o[1], dy)]
    /\ rowsRun' = rowsRun + 1
    /\ IF ShouldYield(dy)
       THEN pc' = "suspended" /\ suspensions' = suspensions + 1 /\ dy' = dy
       ELSE pc' = "row" /\ suspensions' = suspensions /\ dy' = dy + 1
    /\ UNCHANGED <<anchorInPatchPx, targetScale, searchW, searchH, tplData, searchData,
                   result>>
    /\ UNCHANGED nonAlignVars

\* line 131: the timer fires and the loop goes on with dy++
Resume ==
    /\ pc = "suspended"
    /\ pc' = "row"
    /\ dy' = dy + 1
    /\ rowsRun' = 0
    /\ UNCHANGED <<anchorInPatchPx, targetScale, searchW, searchH, tplData, searchData,
                   bestX, bestY, minDiff, scores, suspensions, result>>
    /\ UNCHANGED nonAlignVars

\* the match position itself, without the anchor term
ResultIsMatchPosition(bx, by) == <<2 * bx, 2 * by>>

\* lines 140-143
ResultOf(bx, by) ==
    <<2 * bx - anchorInPatchPx.ax * targetScale,
      2 * by - anchorInPatchPx.ay * targetScale>>

Return ==
    /\ pc = "row"
    /\ dy > limitY
    /\ pc' = "done"
    /\ result' = ResultOf(bestX, bestY)
    /\ UNCHANGED <<anchorInPatchPx, targetScale, searchW, searchH, tplData, searchData,
                   dy, bestX, bestY, minDiff, scores, rowsRun, suspensions>>
    /\ UNCHANGED nonAlignVars

NextAlign == Extract \/ Row \/ Resume \/ Return

SpecAlign == InitAlign /\ [][NextAlign]_vars

\* The host scheduler runs every timer callback and every ready continuation
FairSpecAlign == SpecAlign /\ WF_vars(NextAlign)

----------------------------------------------------------------------------
(* App: image loading, App.tsx:136-157 *)

\* App.tsx:501 and 555: the drop zone is shown while baseImage is null;
\* processFile starts a FileReader (lines 137 and 156)
SelectFile ==
    /\ baseImage = 0
    /\ filesChosen < MaxFiles
    /\ filesChosen' = filesChosen + 1
    /\ readers' = readers \cup {filesChosen + 1}
    /\ UNCHANGED <<baseImage, imgElement, analysis, isAligning, alignProgress,
                   selectedIdx, currentStep, gridConfig, patchOffsets, runs, images,
                   gridEdits, presses>>
    /\ UNCHANGED nonAppVars

\* App.tsx:138-144 and 154
ReaderOnload ==
    \E k \in readers :
        /\ readers' = readers \ {k}
        /\ baseImage' = k
        /\ analysis' = 0
        /\ imgElement' = 0
        /\ patchOffsets' = <<>>
        /\ images' = images \cup {k}
        /\ naturalWidth' = 0
        /\ naturalHeight' = 0
        /\ mainFace' = NoRect
        /\ mainBody' = NoRect
        /\ UNCHANGED <<isAligning, alignProgress, selectedIdx, currentStep, gridConfig,
                       runs, filesChosen, gridEdits, presses>>
        /\ UNCHANGED <<alignVars, restVars>>

\* App.tsx:145-153: scanSpriteSheet has no suspension point of its own
ImgOnload ==
    \E k \in images, sheet \in Sheets :
        /\ images' = images \ {k}
        /\ imgElement' = k
        /\ analysis' = k
        /\ naturalWidth' = sheet.width
        /\ naturalHeight' = sheet.height
        /\ mainFace' = ScannedFace
        /\ mainBody' = ScannedBody(sheet.minY)
        /\ UNCHANGED <<baseImage, isAligning, alignProgress, selectedIdx, currentStep,
                       gridConfig, patchOffsets, runs, readers, filesChosen,
                       gridEdits, presses>>
        /\ UNCHANGED <<alignVars, restVars>>

----------------------------------------------------------------------------
(* App: the controls *)

\* App.tsx:373
SetCurrentStep ==
    \E s \in Steps :
        /\ analysis # 0
        /\ currentStep' = s
        /\ UNCHANGED <<baseImage, imgElement, analysis, isAligning, alignProgress,
                       selectedIdx, gridConfig, patchOffsets, runs, readers, images,
                       filesChosen, gridEdits, presses>>
        /\ UNCHANGED nonAppVars

\* App.tsx:407-409: the cols and rows inputs are shown in the LAYOUT step
GridInputsShown == analysis # 0 /\ imgElement # 0 /\ currentStep = "LAYOUT"

\* a new gridConfig, and the effect of lines 171-175 when the patch count changed
GridChange(g) ==
    /\ gridEdits < MaxGridEdits
    /\ gridEdits' = gridEdits + 1
    /\ gridConfig' = g
    /\ patchOffsets' = IF PatchCount(g) # PatchCount(gridConfig)
                       THEN ResetOffsetsEffect(patchOffsets, PatchCount(g))
                       ELSE patchOffsets
    /\ UNCHANGED <<baseImage, imgElement, analysis, isAligning, alignProgress,
                   selectedIdx, currentStep, runs, readers, images, filesChosen,
                   presses>>
    /\ UNCHANGED nonAppVars

\* prev.cols - 1 || 1, App.tsx:344-345, and parseInt(e.target.value) || 1,
\* App.tsx:418 and 422, where NaN is held as 0
OrOne(n) == IF n = 0 THEN 1 ELSE n

\* App.tsx:418; what is typed parses to NaN, to a negative number or to a count
SetCols ==
    \E c \in (-1)..MaxCols :
        /\ GridInputsShown
        /\ GridChange([gridConfig EXCEPT !.cols = Max(1, OrOne(c))])

\* App.tsx:422
SetRows ==
    \E r \in (-1)..MaxRows :
        /\ GridInputsShown
        /\ GridChange([gridConfig EXCEPT !.rows = Max(1, OrOne(r))])

\* the pointer positions of an ORIGIN drag, normalized (App.tsx:335-337)
OriginDrags == {<<200, 850>>, <<100, 400>>}

\* App.tsx:521 and 339-340: the origin handle is shown in the LAYOUT step
DragOrigin ==
    \E p \in OriginDrags :
        /\ analysis # 0 /\ imgElement # 0 /\ currentStep = "LAYOUT"
        /\ gridConfig' = [gridConfig EXCEPT !.originX = p[1], !.originY = p[2]]
        /\ UNCHANGED <<baseImage, imgElement, analysis, isAligning, alignProgress,
                       selectedIdx, currentStep, patchOffsets, runs, readers, images,
                       filesChosen, gridEdits, presses>>
        /\ UNCHANGED nonAppVars

\* the pointer positions of a SPACING drag, as <<x - originX, y - originY>>
SpacingDrags == {<<0, 360>>, <<360, 0>>, <<360, 360>>}

\* App.tsx:524 and 341-346; the drags of the model are whole multiples of the
\* divisors
DragSpacing ==
    \E d \in SpacingDrags :
        /\ analysis # 0 /\ imgElement # 0 /\ currentStep = "LAYOUT"
        /\ d[1] % OrOne(gridConfig.cols - 1) = 0
        /\ d[2] % OrOne(gridConfig.rows - 1) = 0
        /\ gridConfig' =
              [gridConfig EXCEPT
                  !.spacingX = Max(5, d[1] \div OrOne(gridConfig.cols - 1)),
                  !.spacingY = Max(5, d[2] \div OrOne(gridConfig.rows - 1))]
        /\ UNCHANGED <<baseImage, imgElement, analysis, isAligning, alignProgress,
                       selectedIdx, currentStep, patchOffsets, runs, readers, images,
                       filesChosen, gridEdits, presses>>
        /\ UNCHANGED nonAppVars

\* the pointer positions of a PATCH_SIZE drag, as <<x - originX, y - originY>>
PatchSizeDrags == {<<0, -50>>, <<-50, 90>>}

\* App.tsx:537 and 347-348: the size handle is shown in the SIZE step
DragPatchSize ==
    \E d \in PatchSizeDrags :
        /\ analysis # 0 /\ imgElement # 0 /\ currentStep = "SIZE"
        /\ gridConfig' = [gridConfig EXCEPT !.patchW = Max(10, Abs(d[1]) * 2),
                                            !.patchH = Max(10, Abs(d[2]) * 2)]
        /\ UNCHANGED <<baseImage, imgElement, analysis, isAligning, alignProgress,
                       selectedIdx, currentStep, patchOffsets, runs, readers, images,
                       filesChosen, gridEdits, presses>>
        /\ UNCHANGED nonAppVars

\* the pointer positions of a FACE_RESIZE drag, as <<x - mainFace.x, y - mainFace.y>>
FaceDrags == {<<-50, -50>>, <<300, 300>>}

\* App.tsx:544 and 351-352: the resize handle of the ROI is shown in the ALIGN step
DragFaceResize ==
    \E d \in FaceDrags :
        /\ analysis # 0 /\ imgElement # 0 /\ currentStep = "ALIGN"
        /\ mainFace' = [mainFace EXCEPT !.w = Max(MinFaceSize, d[1]),
                                        !.h = Max(MinFaceSize, d[2])]
        /\ UNCHANGED <<naturalWidth, naturalHeight, mainBody>>
        /\ UNCHANGED <<appVars, alignVars, restVars>>

\* the pointer positions of a FACE drag, normalized (App.tsx:335-337)
FaceMoves == {<<20, 30>>}

\* App.tsx:542 and 349-350: the ROI frame is dragged in the ALIGN step
DragFaceMove ==
    \E p \in FaceMoves :
        /\ analysis # 0 /\ imgElement # 0 /\ currentStep = "ALIGN"
        /\ mainFace.w % 2 = 0 /\ mainFace.h % 2 = 0
        /\ mainFace' = [mainFace EXCEPT !.x = p[1] - mainFace.w \div 2,
                                        !.y = p[2] - mainFace.h \div 2]
        /\ UNCHANGED <<naturalWidth, naturalHeight, mainBody>>
        /\ UNCHANGED <<appVars, alignVars, restVars>>

\* the left edge the anchor gets without the right limit
ClampLow(norm, size) == Max(0, norm - size \div 2)

\* App.tsx:71-72, Math.max(0, Math.min(1000 - anchor.w, normX - anchor.w/2))
Clamp(norm, size) == Max(0, Min(1000 - size, norm - size \div 2))

\* the pointer positions over the preview canvas, as <<normX, normY>> of
\* App.tsx:67-68; the canvas is larger than the patch drawn on it
AnchorPointers == {<<-30, 1030>>, <<1030, -30>>}

\* PatchPreview.handlePointer, App.tsx:57-74 and 82-83 with setAnchorRect of
\* App.tsx:398
MoveAnchor ==
    \E p \in AnchorPointers :
        /\ imgElement # 0
        /\ selectedIdx < PatchCount(gridConfig)
        /\ currentStep = "ALIGN"
        /\ anchorRect' = [anchorRect EXCEPT !.x = Clamp(p[1], anchorRect.w),
                                            !.y = Clamp(p[2], anchorRect.h)]
        /\ UNCHANGED <<alignVars, appVars, imageVars, renderVars, exportVars,
                       studioVars, trip, detectorVars>>

\* App.tsx:469-470
SelectPatch ==
    \E i \in 0..(PatchCount(gridConfig) - 1) :
        /\ i <= MaxSelect
        /\ imgElement # 0
        /\ selectedIdx' = i
        /\ UNCHANGED <<baseImage, imgElement, analysis, isAligning, alignProgress,
                       currentStep, gridConfig, patchOffsets, runs, readers, images,
                       filesChosen, gridEdits, presses>>
        /\ UNCHANGED nonAppVars

----------------------------------------------------------------------------
(* App: handleBatchAutoAlign, App.tsx:194-230 *)

\* App.tsx:407 and 428-430: the button is shown in the ALIGN step
BatchButtonShown == analysis # 0 /\ imgElement # 0 /\ currentStep = "ALIGN"

\* the button never disabled
BatchButtonAlwaysEnabled == TRUE

\* App.tsx:430, disabled={isAligning}
BatchButtonEnabled == ~isAligning

\* App.tsx:194-218: from the click to the first call of autoAlignTemplate
BatchAlignClick ==
    /\ BatchButtonShown
    /\ BatchButtonEnabled
    /\ presses < MaxPresses
    /\ presses' = presses + 1
    /\ imgElement # 0 /\ analysis # 0 /\ PatchCount(gridConfig) # 0
    /\ \E r \in 1..MaxRuns :
          /\ runs[r].pc = "idle"
          /\ \A q \in 1..(r - 1) : runs[q].pc # "idle"
          /\ runs' = [runs EXCEPT ![r] =
                         [pc |-> "aligning", i |-> 0, img |-> imgElement,
                          grid |-> gridConfig, newOffsets |-> patchOffsets,
                          width |-> naturalWidth, face |-> mainFace]]
    /\ isAligning' = TRUE
    /\ selectedIdx' = 0
    /\ alignProgress' = Percent(0, PatchCount(gridConfig))
    /\ UNCHANGED <<baseImage, imgElement, analysis, currentStep, gridConfig,
                   patchOffsets, readers, images, filesChosen, gridEdits>>
    /\ UNCHANGED nonAppVars

\* the outcome of the call run r is waiting for
OutcomeOf(r) == CallOutcome(runs[r].width, runs[r].face, runs[r].grid, DefaultScale)

\* App.tsx:220-223: {dx: 0, dy: 0} brought to normalized units is the zero offset
ReturnedOffset(r) ==
    IF OutcomeOf(r) = "infeasible" THEN ZeroOffset
    ELSE AlignedOffset(runs[r].img, runs[r].grid, runs[r].i)

\* App.tsx:207 and 220-226: the aligner's promise resolves, the offset is stored
\* and the 20 ms timer is started
AlignerReturns ==
    \E r \in 1..MaxRuns :
        /\ runs[r].pc = "aligning"
        /\ OutcomeOf(r) # "threw"
        /\ LET stored == AssignAt(runs[r].newOffsets, runs[r].i, ReturnedOffset(r))
           IN  /\ runs' = [runs EXCEPT ![r].newOffsets = stored, ![r].pc = "sleeping"]
               /\ patchOffsets' = stored
        /\ UNCHANGED <<baseImage, imgElement, analysis, isAligning, alignProgress,
                       selectedIdx, currentStep, gridConfig, readers, images,
                       filesChosen, gridEdits, presses>>
        /\ UNCHANGED nonAppVars

\* App.tsx:207: the aligner's promise rejects (cvService.ts:83), the await
\* throws and handleBatchAutoAlign ends there, with no handler for the error
AlignerThrows ==
    \E r \in 1..MaxRuns :
        /\ runs[r].pc = "aligning"
        /\ OutcomeOf(r) = "threw"
        /\ runs' = [runs EXCEPT ![r].pc = "rejected"]
        /\ UNCHANGED <<baseImage, imgElement, analysis, isAligning, alignProgress,
                       selectedIdx, currentStep, gridConfig, patchOffsets, readers,
                       images, filesChosen, gridEdits, presses>>
        /\ UNCHANGED nonAppVars

\* App.tsx:226, then 202-218 for the next patch or 228-229 after the last
TimerFires ==
    \E r \in 1..MaxRuns :
        /\ runs[r].pc = "sleeping"
        /\ IF runs[r].i + 1 < PatchCount(runs[r].grid)
           THEN /\ runs' = [runs EXCEPT ![r].i = runs[r].i + 1, ![r].pc = "aligning"]
                /\ selectedIdx' = runs[r].i + 1
                /\ alignProgress' = Percent(runs[r].i + 1, PatchCount(runs[r].grid))
                /\ isAligning' = isAligning
           ELSE /\ runs' = [runs EXCEPT ![r] = IdleRun]
                /\ selectedIdx' = selectedIdx
                /\ alignProgress' = 100
                /\ isAligning' = FALSE
        /\ UNCHANGED <<baseImage, imgElement, analysis, currentStep, gridConfig,
                       patchOffsets, readers, images, filesChosen, gridEdits, presses>>
        /\ UNCHANGED nonAppVars

InitApp == AppStart /\ NoCall

NextApp ==
    \/ SelectFile \/ ReaderOnload \/ ImgOnload
    \/ SetCurrentStep \/ SetCols \/ SetRows \/ SelectPatch
    \/ BatchAlignClick \/ AlignerReturns \/ TimerFires

\* The grid workflow with the ROI left as scanned: the grid is edited and
\* patches are selected while batch runs go on
SpecApp == InitApp /\ [][NextApp]_vars

NextBatch ==
    \/ SelectFile \/ ReaderOnload \/ ImgOnload
    \/ SetCurrentStep \/ DragFaceResize
    \/ BatchAlignClick \/ AlignerReturns \/ AlignerThrows \/ TimerFires

NextLayout ==
    \/ SelectFile \/ ReaderOnload \/ ImgOnload
    \/ SetCurrentStep \/ SetCols \/ SetRows
    \/ DragOrigin \/ DragSpacing \/ DragPatchSize

\* The grid workflow while the grid is laid out
SpecLayout == InitApp /\ [][NextLayout]_vars

\* The grid workflow with the grid left as it is: the ROI is resized while
\* batch runs go on
SpecBatch == InitApp /\ [][NextBatch]_vars

\* The host runs every timer callback and settles every promise
FairSpecBatch ==
    SpecBatch /\ WF_vars(AlignerReturns) /\ WF_vars(AlignerThrows) /\ WF_vars(TimerFires)

----------------------------------------------------------------------------
(* Rendering and export.  Raw pixel coordinates are held in units of       *)
(* 1/20000 px, so that every product and every half the code takes is      *)
(* exact; the rectangles of the canvas operations are in the image's frame *)

\* App.tsx:117-120, (val / 1000) * imgElement.naturalWidth
toRawPx(val, width) == val * width * 20

\* a whole number of pixels
Px(n) == n * 20000

\* Math.floor and Math.round, in whole pixels
FloorPx(x) == x \div 20000

RoundPx(x) == (x + 10000) \div 20000

ClearRect(x, y, w, h) ==
    [op |-> "clearRect", dst |-> [x |-> x, y |-> y, w |-> w, h |-> h],
     src |-> NoRect, alpha |-> 0]

DrawImage(src, x, y, w, h, alpha) ==
    [op |-> "drawImage", dst |-> [x |-> x, y |-> y, w |-> w, h |-> h],
     src |-> src, alpha |-> alpha]

\* ctx.drawImage(imgElement, 0, 0)
DrawBase(width, height) ==
    [op |-> "drawBase", dst |-> [x |-> 0, y |-> 0, w |-> Px(width), h |-> Px(height)],
     src |-> [x |-> 0, y |-> 0, w |-> Px(width), h |-> Px(height)], alpha |-> 100]

\* what the callbacks of one render of App close over
AppClosure ==
    [width |-> naturalWidth, height |-> naturalHeight, face |-> mainFace,
     body |-> mainBody, grid |-> gridConfig, calibration |-> calibration,
     patchOffsets |-> patchOffsets]

GridPatches(g) == RowLoop(g, 0, <<>>)

\* a lookup that is off by one
OffsetAtNext(offsets, idx) ==
    IF idx + 1 < Len(offsets) THEN offsets[idx + 2] ELSE ZeroOffset

\* patchOffsets[idx] || { dx: 0, dy: 0 }
OffsetAt(offsets, idx) ==
    IF idx < Len(offsets) /\ offsets[idx + 1] # Hole
    THEN offsets[idx + 1]
    ELSE ZeroOffset

NoCoords == [sw |-> -1]

getCompositeCoords(c, idx) ==
    IF idx >= Len(GridPatches(c.grid))
    THEN NoCoords
    ELSE LET p == GridPatches(c.grid)[idx + 1]
             f == c.face
             off == OffsetAt(c.patchOffsets, idx)
             sw == toRawPx(p.w, c.width)
             sh == toRawPx(p.h, c.width)
         IN  [sx |-> toRawPx(p.x, c.width), sy |-> toRawPx(p.y, c.width),
              sw |-> sw, sh |-> sh,
              tx |-> toRawPx(f.x, c.width) + toRawPx(off.dx, c.width)
                        + toRawPx(c.calibration.offsetX, c.width),
              ty |-> toRawPx(f.y, c.width) + toRawPx(off.dy, c.width)
                        + toRawPx(c.calibration.offsetY, c.width),
              tw |-> (sw * c.calibration.scale) \div 10,
              th |-> (sh * c.calibration.scale) \div 10]

SourceOf(coords) == [x |-> coords.sx, y |-> coords.sy, w |-> coords.sw, h |-> coords.sh]

\* App.tsx:232-246, the operations of draw on the workspace canvas
draw(c, idx, step, alpha) ==
    LET coords == getCompositeCoords(c, idx)
    IN  <<ClearRect(0, 0, Px(c.width), Px(c.height)), DrawBase(c.width, c.height)>>
        \o (IF coords = NoCoords
            THEN <<>>
            ELSE <<DrawImage(SourceOf(coords), coords.tx, coords.ty, coords.tw, coords.th,
                             IF step = "ALIGN" THEN alpha ELSE 100)>>)

\* App.tsx:294-298, in whole pixels
ExportBounds(c) ==
    [bw |-> Max(1, FloorPx(toRawPx(c.body.w, c.width))),
     bh |-> Max(1, FloorPx(toRawPx(c.body.h, c.width))),
     bx |-> FloorPx(toRawPx(c.body.x, c.width)),
     by |-> FloorPx(toRawPx(c.body.y, c.width))]

ExportName(idx) == [prefix |-> "FGO_Sprite_Var", number |-> idx + 1, ext |-> "png"]

\* App.tsx:292-317, the file performExport hands to the browser: the canvas
\* it was drawn on and the operations on that canvas
performExport(c, idx) ==
    LET b == ExportBounds(c)
        coords == getCompositeCoords(c, idx)
        rtx == RoundPx(coords.tx - Px(b.bx))
        rty == RoundPx(coords.ty - Px(b.by))
    IN  [name |-> ExportName(idx),
         canvas |-> [x |-> Px(b.bx), y |-> Px(b.by), w |-> Px(b.bw), h |-> Px(b.bh)],
         offset |-> OffsetAt(c.patchOffsets, idx),
         ops |-> <<DrawImage([x |-> Px(b.bx), y |-> Px(b.by), w |-> Px(b.bw), h |-> Px(b.bh)],
                             Px(b.bx), Px(b.by), Px(b.bw), Px(b.bh), 100)>>
                 \o (IF coords = NoCoords
                     THEN <<>>
                     ELSE <<ClearRect(Px(rtx + b.bx), Px(rty + b.by),
                                      Px(RoundPx(coords.tw)), Px(RoundPx(coords.th))),
                            DrawImage(SourceOf(coords), Px(rtx + b.bx), Px(rty + b.by),
                                      Px(RoundPx(coords.tw)), Px(RoundPx(coords.th)), 100)>>)]

\* the effect that redraws the workspace, App.tsx:282-290
Draw ==
    /\ imgElement # 0
    /\ analysis # 0
    /\ lastRender' = [by |-> "draw", final |-> FALSE, idx |-> selectedIdx,
                      ops |-> draw(AppClosure, selectedIdx, currentStep, previewAlpha)]
    /\ UNCHANGED <<calibration, previewAlpha, downloads>>
    /\ UNCHANGED <<alignVars, appVars, imageVars, exportVars, studioVars, trip, moreVars>>

\* a file handed to the browser: by which run (0 for "export current", negative
\* for downloadAll), for which index, and after how many edits of the layout
Handed(run, idx, file) == [run |-> run, idx |-> idx, file |-> file, edits |-> gridEdits]

\* the files handed over by the "export current" button
Singles == {k \in 1..Len(downloads) : downloads[k].run = 0}

\* App.tsx:89 and 400, onExportCurrent
ExportCurrent ==
    /\ imgElement # 0
    /\ analysis # 0
    /\ Cardinality(Singles) < MaxSingles
    /\ LET file == performExport(AppClosure, selectedIdx)
       IN  /\ downloads' = Append(downloads, Handed(0, selectedIdx, file))
           /\ lastRender' = [by |-> "performExport", final |-> TRUE,
                            idx |-> selectedIdx, ops |-> file.ops]
    /\ UNCHANGED <<calibration, previewAlpha>>
    /\ UNCHANGED <<alignVars, appVars, imageVars, exportVars, studioVars, trip, moreVars>>

\* a handler that reads the state of the latest render
LiveClosure(r) == AppClosure

\* the closure an export-all run works with
ExportClosure(r) == exportRuns[r].closure

\* Math.round(((i + 1) / n) * 100)
ExportProgressAt(i, n) == RoundDiv((i + 1) * 100, n)

\* an export loop that selects the patch it exports, as the batch loop does
ExportSelects ==
    /\ selectedIdx' = Len(downloads)
    /\ UNCHANGED <<baseImage, imgElement, analysis, isAligning, alignProgress,
                   currentStep, gridConfig, patchOffsets, runs, readers, images,
                   filesChosen, gridEdits, presses>>
    /\ UNCHANGED <<calibration, previewAlpha>>
    /\ UNCHANGED <<alignVars, imageVars, studioVars, trip, moreVars>>

\* App.tsx:292-328: the state handleExportAll and performExport set nothing of
ExportKeeps ==
    /\ UNCHANGED <<calibration, previewAlpha>>
    /\ UNCHANGED <<alignVars, appVars, imageVars, studioVars, trip, moreVars>>

\* App.tsx:319-324 and 379: the click runs the handler up to its first await
ExportAllClick ==
    /\ analysis # 0
    /\ ~isExporting
    /\ imgElement # 0
    /\ Len(exportRuns) < MaxExports
    /\ LET c == AppClosure
           n == Len(GridPatches(c.grid))
           r == Len(exportRuns) + 1
       IN  IF n = 0
           THEN /\ exportRuns' = Append(exportRuns, [closure |-> c, i |-> 0, pc |-> "done", edits |-> gridEdits])
                /\ UNCHANGED <<isExporting, exportProgress, lastRender, downloads>>
           ELSE /\ exportRuns' = Append(exportRuns, [closure |-> c, i |-> 1, pc |-> "sleeping",
                                                     edits |-> gridEdits])
                /\ isExporting' = TRUE
                /\ exportProgress' = ExportProgressAt(0, n)
                /\ downloads' = Append(downloads, Handed(r, 0, performExport(c, 0)))
                /\ lastRender' = [by |-> "performExport", final |-> TRUE, idx |-> 0,
                                  ops |-> performExport(c, 0).ops]
    /\ ExportKeeps

\* App.tsx:322-327: the 200 ms timer fires and the loop goes on or ends
ExportTimerFires ==
    \E r \in 1..Len(exportRuns) :
        /\ exportRuns[r].pc = "sleeping"
        /\ LET c == ExportClosure(r)
               n == Len(GridPatches(c.grid))
               i == exportRuns[r].i
           IN  IF i < n
               THEN /\ exportRuns' = [exportRuns EXCEPT ![r].i = i + 1]
                    /\ exportProgress' = ExportProgressAt(i, n)
                    /\ downloads' = Append(downloads, Handed(r, i, performExport(c, i)))
                    /\ lastRender' = [by |-> "performExport", final |-> TRUE, idx |-> i,
                                      ops |-> performExport(c, i).ops]
                    /\ UNCHANGED isExporting
               ELSE /\ exportRuns' = [exportRuns EXCEPT ![r].pc = "done"]
                    /\ isExporting' = FALSE
                    /\ UNCHANGED <<exportProgress, downloads, lastRender>>
        /\ ExportKeeps

(* The App of the detector workflow *)

\* what the callbacks of one render of that App close over
StudioClosure ==
    [width |-> naturalWidth, height |-> naturalHeight, body |-> mainBody,
     targetFace |-> targetFace, patches |-> patches,
     calibration |-> studioCalibration, enableMask |-> enableMask,
     overlayOpacity |-> overlayOpacity, useMasterSize |-> useMasterSize,
     masterSize |-> masterSize]

\* App.tsx:642-653; the rectangle is returned doubled, the halves being exact
getEffectivePatch(c, idx) ==
    LET p == c.patches[idx + 1]
    IN  IF c.useMasterSize
        THEN [x |-> 2 * p.x + p.w - c.masterSize.w,
              y |-> 2 * p.y + p.h - c.masterSize.h,
              w |-> 2 * c.masterSize.w, h |-> 2 * c.masterSize.h]
        ELSE [x |-> 2 * p.x, y |-> 2 * p.y, w |-> 2 * p.w, h |-> 2 * p.h]

\* App.tsx:655-680; calibration.offsetX and offsetY are added as they are
renderComposite(c, patchIdx, isPreview) ==
    IF c.targetFace = NoRect
    THEN <<>>
    ELSE LET nw == c.width
             nh == c.height
             patch == getEffectivePatch(c, patchIdx)
             pW == patch.w * nw * 10
             pH == patch.h * nh * 10
             pX == patch.x * nw * 10
             pY == patch.y * nh * 10
             centerX == (2 * c.targetFace.x + c.targetFace.w) * nw * 10
             centerY == (2 * c.targetFace.y + c.targetFace.h) * nh * 10
             tW == (pW * c.calibration.scale) \div 10
             tH == (pH * c.calibration.scale) \div 10
             tX == (centerX - tW \div 2) + Px(c.calibration.offsetX)
             tY == (centerY - tH \div 2) + Px(c.calibration.offsetY)
         IN  (IF c.enableMask /\ ~isPreview
              THEN <<ClearRect(c.targetFace.x * nw * 20, c.targetFace.y * nh * 20,
                               c.targetFace.w * nw * 20, c.targetFace.h * nh * 20)>>
              ELSE <<>>)
             \o <<DrawImage([x |-> pX, y |-> pY, w |-> pW, h |-> pH], tX, tY, tW, tH,
                            IF isPreview THEN 100 ELSE c.overlayOpacity)>>

\* App.tsx:682-694, the effect that redraws the preview canvas; it calls
\* renderComposite without the isPreview argument, which defaults to false
PreviewEffect ==
    /\ imgElement # 0
    /\ analysis # 0
    /\ selectedPatchIdx # -1
    /\ workflowStep # 3
    /\ lastRender' =
          [by |-> "preview", final |-> FALSE, idx |-> selectedPatchIdx,
           ops |-> <<ClearRect(0, 0, Px(naturalWidth), Px(naturalHeight)),
                     DrawBase(naturalWidth, naturalHeight)>>
                   \o renderComposite(StudioClosure, selectedPatchIdx, FALSE)]
    /\ UNCHANGED <<calibration, previewAlpha, downloads>>
    /\ UNCHANGED <<alignVars, appVars, imageVars, exportVars, studioVars, trip, moreVars>>

\* App.tsx:812, the button that goes from calibration to output and back
ToggleOutputStep ==
    /\ analysis # 0
    /\ workflowStep \in {2, 3}
    /\ workflowStep' = IF workflowStep = 2 THEN 3 ELSE 2
    /\ UNCHANGED <<targetFace, patches, selectedPatchIdx, studioCalibration,
                   overlayOpacity, enableMask, useMasterSize, masterSize, downloadRuns>>
    /\ UNCHANGED <<alignVars, appVars, imageVars, renderVars, exportVars, trip, moreVars>>

DownloadName(idx) == [prefix |-> "fgo_sprite_", number |-> idx + 1, ext |-> "png"]

\* App.tsx:715-721, computed once before the loop;
\* the canvas keeps the whole pixels of bW and bH
DownloadBounds(c) ==
    [x |-> toRawPx(c.body.x, c.width), y |-> c.body.y * c.height * 20,
     w |-> Px(FloorPx(toRawPx(c.body.w, c.width))),
     h |-> Px(FloorPx(c.body.h * c.height * 20))]

\* App.tsx:724-735, one pass of the loop of downloadAll
DownloadItem(c, idx) ==
    [name |-> DownloadName(idx),
     canvas |-> DownloadBounds(c),
     offset |-> ZeroOffset,
     ops |-> <<DrawBase(c.width, c.height)>> \o renderComposite(c, idx, FALSE)]

\* the closure a downloadAll run works with
DownloadClosure(r) == downloadRuns[r].closure

\* App.tsx:713-736 and 864: the click runs the handler up to its first await
DownloadAllClick ==
    /\ workflowStep = 3
    /\ imgElement # 0
    /\ analysis # 0
    /\ targetFace # NoRect
    /\ Len(downloadRuns) < MaxExports
    /\ LET c == StudioClosure
           n == Len(c.patches)
           r == Len(downloadRuns) + 1
       IN  IF n = 0
           THEN /\ downloadRuns' = Append(downloadRuns, [closure |-> c, i |-> 0, pc |-> "done"])
                /\ UNCHANGED <<lastRender, downloads>>
           ELSE /\ downloadRuns' =
                      Append(downloadRuns, [closure |-> c, i |-> 1, pc |-> "sleeping"])
                /\ downloads' = Append(downloads, Handed(-r, 0, DownloadItem(c, 0)))
                /\ lastRender' = [by |-> "downloadAll", final |-> TRUE, idx |-> 0,
                                  ops |-> DownloadItem(c, 0).ops]
    /\ UNCHANGED <<workflowStep, targetFace, patches, selectedPatchIdx, studioCalibration,
                   overlayOpacity, enableMask, useMasterSize, masterSize>>
    /\ UNCHANGED <<calibration, previewAlpha>>
    /\ UNCHANGED <<alignVars, appVars, imageVars, exportVars, trip, moreVars>>

\* App.tsx:723-737: the 200 ms timer fires and the loop goes on or ends
DownloadTimerFires ==
    \E r \in 1..Len(downloadRuns) :
        /\ downloadRuns[r].pc = "sleeping"
        /\ LET c == DownloadClosure(r)
               n == Len(c.patches)
               i == downloadRuns[r].i
           IN  IF i < n
               THEN /\ downloadRuns' = [downloadRuns EXCEPT ![r].i = i + 1]
                    /\ downloads' = Append(downloads, Handed(-r, i, DownloadItem(c, i)))
                    /\ lastRender' = [by |-> "downloadAll", final |-> TRUE, idx |-> i,
                                      ops |-> DownloadItem(c, i).ops]
               ELSE /\ downloadRuns' = [downloadRuns EXCEPT ![r].pc = "done"]
                    /\ UNCHANGED <<lastRender, downloads>>
        /\ UNCHANGED <<workflowStep, targetFace, patches, selectedPatchIdx,
                       studioCalibration, overlayOpacity, enableMask, useMasterSize,
                       masterSize>>
        /\ UNCHANGED <<calibration, previewAlpha>>
        /\ UNCHANGED <<alignVars, appVars, imageVars, exportVars, trip, moreVars>>

(* The states the renders start from: an image is loaded and analysed, the *)
(* grid is the default one, and the sliders and the batch alignment have   *)
(* left their values                                                       *)

\* the scale slider of the grid workflow, App.tsx:459; it has no offset control
SliderScales == {DefaultScale, 11}

Calibrations == {[offsetX |-> 0, offsetY |-> 0, scale |-> s] : s \in SliderScales}

\* the sliders of the detector workflow, App.tsx:840-846
StudioCalibrations ==
    {DefaultCalibration, [offsetX |-> 10, offsetY |-> -5, scale |-> 11]}

\* what a batch alignment over n patches stored, in normalized units
AlignedOffsets(n) == [k \in 1..n |-> [dx |-> 5 * k, dy |-> -10 * k]]

StoredOffsets ==
    {[k \in 1..(DefaultCols * DefaultRows) |-> ZeroOffset],
     AlignedOffsets(DefaultCols * DefaultRows)}

\* the ROI as scanned, and as dragged and resized (App.tsx:349-352)
Faces == {ScannedFace, [x |-> 400, y |-> 200, w |-> 200, h |-> 180]}

\* what the detector returned, geminiService.ts
DetectedPatches ==
    <<[x |-> 100, y |-> 800, w |-> 180, h |-> 180],
      [x |-> 300, y |-> 820, w |-> 200, h |-> 160]>>

ImageLoadedFrom(sheets) ==
    /\ baseImage = 1
    /\ imgElement = 1
    /\ analysis = 1
    /\ isAligning = FALSE
    /\ alignProgress = 0
    /\ runs = [r \in 1..MaxRuns |-> IdleRun]
    /\ readers = {}
    /\ images = {}
    /\ filesChosen = 1
    /\ gridEdits = 0
    /\ presses = 0
    /\ \E sheet \in sheets :
          /\ naturalWidth = sheet.width
          /\ naturalHeight = sheet.height
          /\ mainBody = ScannedBody(sheet.minY)
    /\ mainFace \in Faces
    /\ isExporting = FALSE
    /\ exportProgress = 0
    /\ exportRuns = <<>>
    /\ lastRender = NoRender
    /\ downloads = <<>>
    /\ anchorRect = DefaultAnchor
    /\ NoAnalysisRun
    /\ ServiceBuilt

ImageLoaded == ImageLoadedFrom(Sheets) /\ trip = <<>>

\* the grid workflow after a batch alignment
GridLoaded ==
    /\ gridConfig = DefaultGrid
    /\ selectedIdx = 5
    /\ currentStep \in Steps
    /\ patchOffsets \in StoredOffsets
    /\ calibration \in Calibrations
    /\ previewAlpha = DefaultPreviewAlpha

\* the grid workflow as the scan leaves it, App.tsx:104-131
GridAsScanned ==
    /\ gridConfig = DefaultGrid
    /\ selectedIdx = 0
    /\ currentStep = "LAYOUT"
    /\ patchOffsets = ResetOffsetsEffect(<<>>, DefaultCols * DefaultRows)
    /\ calibration = DefaultCalibration
    /\ previewAlpha = DefaultPreviewAlpha

StudioLoaded ==
    /\ workflowStep = 2
    /\ targetFace = mainFace
    /\ patches = DetectedPatches
    /\ selectedPatchIdx = 1
    /\ studioCalibration \in StudioCalibrations
    /\ overlayOpacity \in {100, 50}
    /\ enableMask \in BOOLEAN
    /\ useMasterSize = TRUE
    /\ masterSize = [w |-> DetectedPatches[1].w, h |-> DetectedPatches[1].h]
    /\ downloadRuns = <<>>

InitRender == ImageLoaded /\ GridLoaded /\ StudioStart /\ NoCall

NextRender == Draw \/ ExportCurrent \/ ExportAllClick \/ ExportTimerFires

\* The renders and exports of the grid workflow, from every loaded state
SpecRender == InitRender /\ [][NextRender]_vars

InitStudio == ImageLoaded /\ GridAsScanned /\ StudioLoaded /\ NoCall

NextStudio == PreviewEffect \/ ToggleOutputStep \/ DownloadAllClick \/ DownloadTimerFires

\* The renders and exports of the detector workflow, from every analysed state
SpecStudio == InitStudio /\ [][NextStudio]_vars

(* The edits the user can make while an export-all run sleeps *)

\* the edits of one behaviour are counted together with those of the grid
LayoutEdit ==
    /\ gridEdits < MaxGridEdits
    /\ gridEdits' = gridEdits + 1
    /\ UNCHANGED <<baseImage, imgElement, analysis, isAligning, alignProgress,
                   selectedIdx, currentStep, gridConfig, patchOffsets, runs, readers,
                   images, filesChosen, presses>>

\* where the pointer is let go, in normalized units
BodyMoves == {<<520, 400>>}

\* App.tsx:353-354 and 529, dragging the body frame in the LAYOUT step
DragBodyMove ==
    \E d \in BodyMoves :
        /\ GridInputsShown
        /\ mainBody.w % 2 = 0 /\ mainBody.h % 2 = 0
        /\ mainBody' = [mainBody EXCEPT !.x = d[1] - mainBody.w \div 2,
                                        !.y = d[2] - mainBody.h \div 2]
        /\ UNCHANGED <<naturalWidth, naturalHeight, mainFace>>
        /\ LayoutEdit
        /\ UNCHANGED <<alignVars, restVars>>

BodyResizes == {<<600, 500>>}

\* App.tsx:356, the least width and height BODY_RESIZE leaves
MinBodySize == 10

\* App.tsx:355-356 and 530, dragging the body frame's resize handle
DragBodyResize ==
    \E d \in BodyResizes :
        /\ GridInputsShown
        /\ mainBody' = [mainBody EXCEPT !.w = Max(MinBodySize, d[1] - mainBody.x),
                                        !.h = Max(MinBodySize, d[2] - mainBody.y)]
        /\ UNCHANGED <<naturalWidth, naturalHeight, mainFace>>
        /\ LayoutEdit
        /\ UNCHANGED <<alignVars, restVars>>

\* App.tsx:459, the scale slider of the ALIGN step
SetScale ==
    \E sc \in SliderScales :
        /\ analysis # 0 /\ imgElement # 0 /\ currentStep = "ALIGN"
        /\ calibration' = [calibration EXCEPT !.scale = sc]
        /\ UNCHANGED <<previewAlpha, lastRender, downloads>>
        /\ LayoutEdit
        /\ UNCHANGED <<alignVars, imageVars, exportVars, studioVars, trip, moreVars>>

\* an image is loaded and nothing is edited yet
InitEdits ==
    /\ ImageLoaded
    /\ mainFace = ScannedFace
    /\ GridAsScanned
    /\ StudioStart
    /\ NoCall

NextEdits ==
    \/ SetCurrentStep \/ SetCols \/ SetRows
    \/ DragOrigin \/ DragSpacing \/ DragPatchSize
    \/ DragBodyMove \/ DragBodyResize
    \/ DragFaceMove \/ DragFaceResize \/ MoveAnchor

\* The grid workflow under every edit of its three steps, from a loaded image
SpecEdits == InitEdits /\ [][NextEdits]_vars

\* the grid the exports start from: one row of the default grid
ExportGrid == [DefaultGrid EXCEPT !.rows = 1]

\* an image is loaded, the grid is cut to one row and a batch alignment has
\* stored its offsets; the user is laying out or calibrating
InitExport ==
    /\ ImageLoaded
    /\ mainFace = ScannedFace
    /\ gridConfig = ExportGrid
    /\ selectedIdx = 1
    /\ currentStep \in {"LAYOUT", "ALIGN"}
    /\ patchOffsets = AlignedOffsets(DefaultCols)
    /\ calibration = DefaultCalibration
    /\ previewAlpha = DefaultPreviewAlpha
    /\ StudioStart
    /\ NoCall

NextExport ==
    \/ SetCols \/ DragBodyMove \/ DragBodyResize \/ SetScale
    \/ ExportCurrent \/ ExportAllClick \/ ExportTimerFires

\* The grid workflow while files are exported and the user goes on editing
SpecExport == InitExport /\ [][NextExport]_vars

\* the exports' start, in the ALIGN step of the narrow image
InitFrame == InitExport /\ currentStep = "ALIGN" /\ naturalWidth = 64

NextFrame ==
    \/ DragFaceResize \/ MoveAnchor
    \/ BatchAlignClick \/ AlignerReturns \/ AlignerThrows \/ TimerFires
    \/ ExportAllClick \/ ExportTimerFires

\* The ALIGN step of the grid workflow while batch runs and export-all runs go
\* on and the user edits the ROI and the anchor
SpecFrame == InitFrame /\ [][NextFrame]_vars

----------------------------------------------------------------------------
(* The detector workflow: upload, analyzeFgoSpriteSheet with its fallback  *)
(* to the cheaper model, and startAnalysis                                 *)

Services == {"geminiService", "part_004", "part_005"}

ProModel == "gemini-3-pro-preview"
FlashModel == "gemini-3-flash-preview"

\* a detector that tests no key
ChecksNoKey(sv) == FALSE

\* part_004:24-28 and part_005:39-43 test the key before the SDK is set up;
\* geminiService.ts:96 hands it to the SDK untested
ChecksKey(sv) == sv \in {"part_004", "part_005"}

\* part_004:27, part_005:42; the messages hold none of the words looked for
KeyError == [kind |-> "key", mentions |-> {}]

\* part_004:107, part_005:106
EmptyError == [kind |-> "empty", mentions |-> {}]

\* the SyntaxError of JSON.parse.  Its message is the engine's: it can quote
\* the text and the position of the fault, so the words "404" and "not found"
\* are in it or not
ParseErrors == {[kind |-> "parse", mentions |-> m] : m \in {{}, {"404"}}}

\* what generateContent comes back with: a text that is the JSON asked for
\* (with or without patches), that JSON inside a ```json fence, no text, a
\* text that is no JSON, or a rejection whose message holds the words given
Answers ==
    {[kind |-> "json", mentions |-> {}, patches |-> ps] : ps \in {<<>>, DetectedPatches}}
        \cup {[kind |-> "fenced", mentions |-> {}], [kind |-> "noText", mentions |-> {}]}
        \cup {[kind |-> "badText", mentions |-> e.mentions] : e \in ParseErrors}
        \cup {[kind |-> "request", mentions |-> m] :
                 m \in {{}, {"404"}, {"not found"}, {"permission"}}}

\* geminiService.ts:156, part_004:106-110, part_005:105-107: the error thrown
\* inside the try, NoError when the text is parsed
ThrownFor(sv, answer) ==
    CASE answer.kind = "json" -> NoError
      [] answer.kind = "request" -> [kind |-> "request", mentions |-> answer.mentions]
      [] answer.kind = "fenced" ->
            IF sv = "part_004" THEN NoError ELSE [kind |-> "parse", mentions |-> {}]
      [] answer.kind = "noText" ->
            IF sv = "geminiService" THEN [kind |-> "parse", mentions |-> {}]
            ELSE EmptyError
      [] answer.kind = "badText" -> [kind |-> "parse", mentions |-> answer.mentions]

\* error.message?.includes(word)
Includes(error, word) == word \in error.mentions

\* geminiService.ts:158, part_004:113, part_005:109
Retries(sv, useFlash, error) ==
    /\ ~useFlash
    /\ \/ Includes(error, "404")
       \/ Includes(error, "not found")
       \/ sv = "part_004" /\ Includes(error, "permission")

\* the mainFace and mainBody of the detector's result
DetectedFace == [x |-> 400, y |-> 200, w |-> 200, h |-> 180]
DetectedBody == [x |-> 100, y |-> 0, w |-> 800, h |-> 780]

\* App.tsx:748, 758, 873 and 592-596, 612: a file is chosen at any time
ChooseFile ==
    /\ filesChosen < MaxUploads
    /\ filesChosen' = filesChosen + 1
    /\ readers' = readers \cup {filesChosen + 1}
    /\ UNCHANGED <<baseImage, imgElement, analysis, isAligning, alignProgress,
                   selectedIdx, currentStep, gridConfig, patchOffsets, runs, images,
                   gridEdits, presses>>
    /\ UNCHANGED nonAppVars

\* App.tsx:597-599 and 610
StudioReaderOnload ==
    \E k \in readers :
        /\ readers' = readers \ {k}
        /\ baseImage' = k
        /\ images' = images \cup {k}
        /\ UNCHANGED <<imgElement, analysis, isAligning, alignProgress, selectedIdx,
                       currentStep, gridConfig, patchOffsets, runs, filesChosen,
                       gridEdits, presses>>
        /\ UNCHANGED nonAppVars

\* the images uploaded
UploadedSheets == {[width |-> 1000, height |-> 2000, minY |-> 40]}

\* App.tsx:600-609
StudioImgOnload ==
    \E k \in images, sheet \in UploadedSheets :
        /\ images' = images \ {k}
        /\ imgElement' = k
        /\ naturalWidth' = sheet.width
        /\ naturalHeight' = sheet.height
        /\ analysis' = 0
        /\ mainFace' = NoRect
        /\ mainBody' = NoRect
        /\ patches' = <<>>
        /\ targetFace' = NoRect
        /\ selectedPatchIdx' = -1
        /\ workflowStep' = 1
        /\ studioCalibration' = DefaultCalibration
        /\ errorMessage' = NoError
        /\ UNCHANGED <<baseImage, isAligning, alignProgress, selectedIdx, currentStep,
                       gridConfig, patchOffsets, runs, readers, filesChosen, gridEdits,
                       presses>>
        /\ UNCHANGED <<overlayOpacity, enableMask, useMasterSize, masterSize,
                       downloadRuns>>
        /\ UNCHANGED <<service, apiKey, isAnalyzing, analysisProgress, progressTimers,
                       call, callsMade, stepTimers, analysisLog>>
        /\ UNCHANGED <<alignVars, renderVars, exportVars, trip, anchorVars>>

\* App.tsx:751, 757 and 763: the button is shown in step 1 once an image is
\* there, and is disabled while isAnalyzing
StartButtonEnabled == workflowStep = 1 /\ baseImage # 0 /\ ~isAnalyzing

\* App.tsx:617-623 with the call's start.  Where the key is tested and found
\* missing, the call throws before its try: the promise is rejected, and
\* lines 634-638 run before any other event
StartAnalysis ==
    /\ StartButtonEnabled
    /\ baseImage # 0 /\ imgElement # 0
    /\ callsMade < MaxCalls
    /\ callsMade' = callsMade + 1
    /\ analysisProgress' = 10
    /\ IF ChecksKey(service) /\ apiKey = "missing"
       THEN /\ call' = [image |-> baseImage, useFlash |-> FALSE,
                        requests |-> <<>>, firstError |-> NoError,
                        pc |-> "rejected", error |-> KeyError]
            /\ errorMessage' = KeyError
            /\ isAnalyzing' = FALSE
            /\ progressTimers' = progressTimers
       ELSE /\ call' = [image |-> baseImage, useFlash |-> FALSE,
                        requests |-> <<ProModel>>, firstError |-> NoError,
                        pc |-> "requesting", error |-> NoError]
            /\ errorMessage' = NoError
            /\ isAnalyzing' = TRUE
            /\ progressTimers' = progressTimers \cup {callsMade + 1}
    /\ UNCHANGED <<service, apiKey, stepTimers, analysisLog>>
    /\ UNCHANGED <<alignVars, appVars, imageVars, renderVars, exportVars, studioVars,
                   trip, anchorVars>>

\* App.tsx:621, the interval's callback; the answer comes within MaxTicks
\* periods of the interval
ProgressTick ==
    /\ progressTimers # {}
    /\ analysisProgress < 10 + 5 * MaxTicks
    /\ analysisProgress < 90
    /\ analysisProgress' = analysisProgress + 5
    /\ UNCHANGED <<service, apiKey, isAnalyzing, errorMessage, progressTimers, call,
                   callsMade, stepTimers, analysisLog>>
    /\ UNCHANGED <<alignVars, appVars, imageVars, renderVars, exportVars, studioVars,
                   trip, anchorVars>>

\* geminiService.ts:158-159: the call goes on with the cheaper model
Fallback(thrown) ==
    /\ call' = [call EXCEPT !.useFlash = TRUE,
                            !.requests = Append(@, FlashModel),
                            !.firstError = thrown]
    /\ UNCHANGED <<service, apiKey, isAnalyzing, analysisProgress, errorMessage,
                   progressTimers, callsMade, stepTimers, analysisLog>>
    /\ UNCHANGED <<alignVars, appVars, imageVars, renderVars, exportVars, studioVars,
                   trip, anchorVars>>

\* the patches of the result parsed from the answer's text
ParsedPatches(answer) ==
    IF answer.kind = "json" THEN answer.patches ELSE DetectedPatches

\* App.tsx:624-633 and 636-638: the result is installed
Resolve(found) ==
    /\ call' = [call EXCEPT !.pc = "resolved"]
    /\ analysis' = call.image
    /\ analysisLog' = Append(analysisLog, call.image)
    /\ mainFace' = DetectedFace
    /\ mainBody' = DetectedBody
    /\ patches' = found
    /\ targetFace' = DetectedFace
    /\ IF Len(found) > 0
       THEN /\ selectedPatchIdx' = 0
            /\ masterSize' = [w |-> found[1].w, h |-> found[1].h]
       ELSE UNCHANGED <<selectedPatchIdx, masterSize>>
    /\ analysisProgress' = 100
    /\ stepTimers' = stepTimers + 1
    /\ progressTimers' = progressTimers \ {callsMade}
    /\ isAnalyzing' = FALSE
    /\ UNCHANGED <<service, apiKey, errorMessage, callsMade>>
    /\ UNCHANGED <<baseImage, imgElement, isAligning, alignProgress, selectedIdx,
                   currentStep, gridConfig, patchOffsets, runs, readers, images,
                   filesChosen, gridEdits, presses>>
    /\ UNCHANGED <<naturalWidth, naturalHeight>>
    /\ UNCHANGED <<workflowStep, studioCalibration, overlayOpacity, enableMask,
                   useMasterSize, downloadRuns>>
    /\ UNCHANGED <<alignVars, renderVars, exportVars, trip, anchorVars>>

\* geminiService.ts:161, then App.tsx:634-638
Reject(thrown) ==
    /\ call' = [call EXCEPT !.pc = "rejected", !.error = thrown]
    /\ errorMessage' = thrown
    /\ progressTimers' = progressTimers \ {callsMade}
    /\ isAnalyzing' = FALSE
    /\ UNCHANGED <<service, apiKey, analysisProgress, callsMade, stepTimers,
                   analysisLog>>
    /\ UNCHANGED <<alignVars, appVars, imageVars, renderVars, exportVars, studioVars,
                   trip, anchorVars>>

\* the promise of generateContent settles; what follows up to the end of
\* startAnalysis, or up to the next request, runs before any other event
RequestAnswers ==
    \E answer \in Answers :
        /\ call.pc = "requesting"
        /\ LET thrown == ThrownFor(service, answer)
           IN  IF thrown = NoError
               THEN Resolve(ParsedPatches(answer))
               ELSE IF Retries(service, call.useFlash, thrown)
                    THEN Fallback(thrown)
                    ELSE Reject(thrown)

\* App.tsx:633, the callback of the 500 ms timer
StepTimerFires ==
    /\ stepTimers > 0
    /\ stepTimers' = stepTimers - 1
    /\ workflowStep' = 2
    /\ UNCHANGED <<targetFace, patches, selectedPatchIdx, studioCalibration,
                   overlayOpacity, enableMask, useMasterSize, masterSize, downloadRuns>>
    /\ UNCHANGED <<service, apiKey, isAnalyzing, analysisProgress, errorMessage,
                   progressTimers, call, callsMade, analysisLog>>
    /\ UNCHANGED <<alignVars, appVars, imageVars, renderVars, exportVars, trip,
                   anchorVars>>

\* the App is mounted with one of the detectors built in; where the detector
\* leaves the test of the key to the SDK the key is there
InitDetector ==
    /\ AppMounted
    /\ NoCall
    /\ service \in Services
    /\ apiKey \in {"set", "missing"}
    /\ service = "geminiService" => apiKey = "set"

NextDetector ==
    \/ ChooseFile \/ StudioReaderOnload \/ StudioImgOnload
    \/ StartAnalysis \/ ProgressTick \/ RequestAnswers
    \/ StepTimerFires \/ ToggleOutputStep

\* The detector workflow: uploads, analyses and step changes in any order
SpecDetector == InitDetector /\ [][NextDetector]_vars

\* App.tsx:757-758: the first file, chosen in the empty step 1
ChooseFirstFile == filesChosen = 0 /\ baseImage = 0 /\ ChooseFile

NextService ==
    \/ ChooseFirstFile \/ StudioReaderOnload \/ StudioImgOnload
    \/ StartAnalysis \/ ProgressTick \/ RequestAnswers
    \/ StepTimerFires \/ ToggleOutputStep

\* The detector workflow on one image: the analyses and what they come back
\* with
SpecService == InitDetector /\ [][NextService]_vars

(* Numbers.  The code computes with binary floating point, rounding each  *)
(* quotient and product to the nearest Number, ties to even.  A Number is  *)
(* held as [s, m, e], the value s * m * 2^e with m of Precision bits, or   *)
(* m = 0; the exponent has no bounds                                       *)

Zero == [s |-> 1, m |-> 0, e |-> 0]

\* n / d to the nearest integer, ties to even; n >= 0, d > 0
RoundHalfEven(n, d) ==
    LET q == n \div d
        r == n % d
    IN  IF 2 * r > d THEN q + 1
        ELSE IF 2 * r < d THEN q
        ELSE IF q % 2 = 0 THEN q ELSE q + 1

\* the Number nearest to sign * (n / d) * 2^e; n >= 0, d > 0
RECURSIVE Nearest(_, _, _, _)
Nearest(sign, n, d, e) ==
    IF n = 0 THEN Zero
    ELSE IF n >= d * 2^Precision THEN Nearest(sign, n, 2 * d, e + 1)
    ELSE IF n < d * 2^(Precision - 1) THEN Nearest(sign, 2 * n, d, e - 1)
    ELSE LET m == RoundHalfEven(n, d)
         IN  IF m = 2^Precision
             THEN [s |-> sign, m |-> 2^(Precision - 1), e |-> e + 1]
             ELSE [s |-> sign, m |-> m, e |-> e]

\* an integer literal or an integer property such as naturalWidth
Number(k) == Nearest(IF k < 0 THEN -1 ELSE 1, Abs(k), 1, 0)

\* a / b
Quotient(a, b) == Nearest(a.s * b.s, a.m, b.m, a.e - b.e)

\* a * b
Product(a, b) == Nearest(a.s * b.s, a.m * b.m, 1, a.e + b.e)

\* a conversion that forgets the factor 1000
DivideByWidth(raw, width) == Quotient(raw, Number(width))

\* App.tsx:221-222, (result.dx / imgElement.naturalWidth) * 1000
toNormalized(raw, width) == Product(Quotient(raw, Number(width)), Number(1000))

\* App.tsx:117-120, (val / 1000) * imgElement.naturalWidth
toRawPxNumber(val, width) == Product(Quotient(val, Number(1000)), Number(width))

\* the widths of the images the value is carried on
TripSheets == {[width |-> w, height |-> w, minY |-> 0] : w \in {64, 100, 1000, 1920}}

\* the value is an offset in raw pixels that the aligner returned, or a value
\* in normalized units
InitTrip ==
    /\ ImageLoadedFrom(TripSheets)
    /\ GridAsScanned
    /\ StudioStart
    /\ NoCall
    /\ \E k \in (-MaxValue)..MaxValue, unit \in {"raw", "normalized"} :
          trip = <<[unit |-> unit, value |-> Number(k)]>>

\* App.tsx:220-223, the offset is stored in normalized units
StoreNormalized ==
    /\ imgElement # 0
    /\ trip # <<>>
    /\ Len(trip) < TripLength
    /\ trip[Len(trip)].unit = "raw"
    /\ trip' = Append(trip, [unit |-> "normalized",
                             value |-> toNormalized(trip[Len(trip)].value, naturalWidth)])
    /\ UNCHANGED <<alignVars, appVars, imageVars, renderVars, exportVars, studioVars, moreVars>>

\* App.tsx:117-120 and 186-187, the stored value is read back in raw pixels
ReadRaw ==
    /\ imgElement # 0
    /\ trip # <<>>
    /\ Len(trip) < TripLength
    /\ trip[Len(trip)].unit = "normalized"
    /\ trip' = Append(trip, [unit |-> "raw",
                             value |-> toRawPxNumber(trip[Len(trip)].value, naturalWidth)])
    /\ UNCHANGED <<alignVars, appVars, imageVars, renderVars, exportVars, studioVars, moreVars>>

NextTrip == StoreNormalized \/ ReadRaw

\* One value carried from one unit to the other and back
SpecTrip == InitTrip /\ [][NextTrip]_vars

----------------------------------------------------------------------------
(* What the aligner is to compute, stated over the buffers *)

Ended == pc \in {"done", "infeasible", "threw"}

Infeasible == searchW < tplW \/ searchH < tplH

Offsets == (0..limitX) \X (0..limitY)

\* the template pixels that are scored: even px, even py, alpha above 40
ScoredCells ==
    {c \in (0..(tplW - 1)) \X (0..(tplH - 1)) :
        c[1] % 2 = 0 /\ c[2] % 2 = 0 /\ tplData[c[2] * tplW + c[1]][4] > 40}

ChannelDistance(t, s) ==
    (IF t[1] >= s[1] THEN t[1] - s[1] ELSE s[1] - t[1])
    + (IF t[2] >= s[2] THEN t[2] - s[2] ELSE s[2] - t[2])
    + (IF t[3] >= s[3] THEN t[3] - s[3] ELSE s[3] - t[3])

RECURSIVE SumOverCells(_, _)
SumOverCells(S, o) ==
    IF S = {} THEN 0
    ELSE LET c == CHOOSE c \in S : TRUE
         IN  ChannelDistance(tplData[c[2] * tplW + c[1]],
                             searchData[(c[2] + o[2]) * searchW + (c[1] + o[1])])
             + SumOverCells(S \ {c}, o)

\* the mean of offset o as the fraction <<sum, count>>
MeanOf(o) == <<SumOverCells(ScoredCells, o), Cardinality(ScoredCells)>>

SameFraction(a, b) == a[1] * b[2] = b[1] * a[2]
SmallerFraction(a, b) == a[1] * b[2] < b[1] * a[2]

RasterBefore(a, b) == a[2] < b[2] \/ (a[2] = b[2] /\ a[1] < b[1])

Evaluated == DOMAIN scores
Best == <<bestX, bestY>>

FullyTransparentTemplate == \A i \in DOMAIN tplData : tplData[i][4] <= 40

CopyAt(ox, oy) ==
    searchData = Planted(searchW, searchH, Transparent, tplData, tplW, tplH, ox, oy)

----------------------------------------------------------------------------
(* C1.  A call whose search region is smaller than the scaled template in  *)
(* either axis, a search region of zero width or height included,         *)
(* resolves to {dx: 0, dy: 0} and never throws.                            *)
C1_InfeasibleResolvesZero ==
    (Ended /\ Infeasible) => (pc = "infeasible" /\ result = <<0, 0>>)

(* C2.  With no template pixel above the alpha threshold the call returns  *)
(* exactly {dx: 0, dy: 0}, whatever the search content, the anchor         *)
(* position and the scale.                                                 *)
C2_TransparentReturnsZero ==
    (pc \in {"done", "infeasible"} /\ FullyTransparentTemplate) => result = <<0, 0>>

(* C3 as stated.  A search region that shows a copy of the template at     *)
(* (ddx, ddy) and is transparent elsewhere makes (ddx, ddy) the winning    *)
(* offset, with score 0, for every template.                               *)
C3_ExactMatchAsStated ==
    \A o \in Offsets :
        (pc = "done" /\ CopyAt(o[1], o[2])) =>
            (Best = o /\ minDiff[2] > 0 /\ minDiff[1] = 0)

(* C3 as amended.  With such a search region and a template that has a     *)
(* scored pixel, the best score is 0 and the winning offset is the first   *)
(* offset in raster order whose mean is 0: (ddx, ddy), or an earlier       *)
(* offset that also scores 0.  With no scored pixel nothing is scored and  *)
(* the winning offset stays (0, 0).                                        *)
C3_ExactMatch ==
    \A o \in Offsets :
        (pc = "done" /\ CopyAt(o[1], o[2])) =>
            IF ScoredCells = {}
            THEN Best = <<0, 0>> /\ minDiff = Infinity
            ELSE /\ minDiff[2] > 0 /\ minDiff[1] = 0
                 /\ Best \in Offsets
                 /\ MeanOf(Best)[1] = 0
                 /\ \A e \in Offsets : RasterBefore(e, Best) => MeanOf(e)[1] > 0
                 /\ (Best = o \/ RasterBefore(Best, o))

C3_Witness ==
    /\ pc = "done"
    /\ ScoredCells # {}
    /\ \E o \in Offsets : CopyAt(o[1], o[2]) /\ Best = o /\ o[1] > 0 /\ o[2] > 0
    /\ \E o \in Offsets : MeanOf(o)[1] > 0

(* C4.  At every point of the search the current best is the first offset  *)
(* in raster order among the evaluated offsets of minimum score: an        *)
(* offset evaluated later with an equal score has not replaced it.         *)
C4_FirstMinimumInRasterOrder ==
    IF \A e \in Evaluated : scores[e][2] = 0
    THEN Best = <<0, 0>> /\ minDiff = Infinity
    ELSE /\ Best \in Evaluated
         /\ minDiff = scores[Best]
         /\ \A e \in Evaluated :
               /\ ~SmallerFraction(scores[e], scores[Best])
               /\ (SameFraction(scores[e], scores[Best]) /\ e # Best)
                     => RasterBefore(Best, e)

C4_Witness ==
    /\ pc = "done"
    /\ minDiff[2] > 0
    /\ \E e \in Evaluated :
          e[1] > bestX /\ e[2] = bestY /\ SameFraction(scores[e], scores[Best])
    /\ \E e \in Evaluated :
          e[2] > bestY /\ e[1] < bestX /\ SameFraction(scores[e], scores[Best])
    /\ \E e \in Evaluated : SmallerFraction(scores[Best], scores[e])

(* C5.  The score of every evaluated offset is the mean, over the template *)
(* pixels at even px and even py whose alpha is above 40, of the summed    *)
(* absolute R, G, B differences to the search pixel at (px+dx, py+dy);     *)
(* the other pixels add nothing, and an offset without scored pixels is    *)
(* not the best while an evaluated offset has one.                         *)
C5_ScoreIsMeanOverScoredCells ==
    /\ \A e \in Evaluated : scores[e] = MeanOf(e)
    /\ (\E e \in Evaluated : MeanOf(e)[2] > 0) =>
          (Best \in Evaluated /\ MeanOf(Best)[2] > 0 /\ minDiff = MeanOf(Best))

C5_Witness ==
    /\ pc = "done"
    /\ tplW >= 3
    /\ tplH >= 3
    /\ \E i \in DOMAIN tplData : tplData[i] = AtThreshold /\ (i % tplW) % 2 = 0
    /\ \E i \in DOMAIN tplData : tplData[i] = Opaque /\ (i % tplW) % 2 = 1
    /\ Cardinality(ScoredCells) >= 2
    /\ \E e \in Evaluated : scores[e][1] > 0 /\ ~SameFraction(scores[e], scores[Best])

(* C6.  The value returned by a feasible run is the winning offset minus   *)
(* the anchor position times targetScale, in both axes.                    *)
C6_ResultIsPatchOriginShift ==
    pc = "done" =>
        /\ result[1] = 2 * bestX - anchorInPatchPx.ax * targetScale
        /\ result[2] = 2 * bestY - anchorInPatchPx.ay * targetScale

C6_Witness ==
    /\ pc = "done"
    /\ bestX > 0 /\ bestY > 0
    /\ anchorInPatchPx.ax > 0
    /\ targetScale = 3
    /\ result # <<2 * bestX, 2 * bestY>>

(* C7.  No more than 50 consecutive rows of the dy loop are evaluated      *)
(* without a suspension, and the rows are evaluated in order, each once:   *)
(* after a suspension the search goes on with the next row.                *)
C7_YieldsEveryFiftyRows ==
    /\ rowsRun <= 50
    /\ pc = "row" => Evaluated = (0..limitX) \X (0..(dy - 1))
    /\ pc = "suspended" => Evaluated = (0..limitX) \X (0..dy)

C7_Witness ==
    /\ pc = "row"
    /\ dy = 2 * YieldEvery + 1
    /\ suspensions = 3
    /\ dy <= limitY

C7_FullBurst == pc = "suspended" /\ rowsRun = 50

(* C8.  Under a fair scheduler every call ends with a result or with the   *)
(* infeasibility report, and it is suspended no more often than the        *)
(* search region has rows.                                                 *)
C8_EndsWithResultOrInfeasible ==
    /\ <>(pc \in {"done", "infeasible"})
    /\ [](suspensions <= searchH)

----------------------------------------------------------------------------
(* What a batch run is to do, stated over the runs *)

RunIds == 1..MaxRuns

CallsInFlight == {r \in RunIds : runs[r].pc = "aligning"}

\* the offset the call for patch i of run r is to give: zero when the search
\* region is too small for the template, else what the search finds
ExpectedOffset(r, i) ==
    IF FloorRawPx(runs[r].face.w, runs[r].width)
           < TemplateSide(DefaultAnchor.w, runs[r].grid.patchW, runs[r].width, DefaultScale)
       \/ FloorRawPx(runs[r].face.h, runs[r].width)
           < TemplateSide(DefaultAnchor.h, runs[r].grid.patchH, runs[r].width, DefaultScale)
    THEN [dx |-> 0, dy |-> 0]
    ELSE [img |-> runs[r].img, grid |-> runs[r].grid, idx |-> i,
          dx |-> 5 * (i + 1), dy |-> -10 * (i + 1)]

\* run r starts a call of the aligner in this step
StartsCall(r) ==
    /\ runs'[r].pc = "aligning"
    /\ runs[r].pc # "aligning" \/ runs'[r].i # runs[r].i

(* C9.  A batch run goes through the patches 0, 1, ..., n-1 one after      *)
(* another: the call for patch 0 starts with the press, the call for patch *)
(* i+1 starts only from the pause that follows the storing of patch i's    *)
(* offset at index i, a call that does not throw ends with its offset      *)
(* stored at index i, the run ends only after patch n-1, and no two calls  *)
(* of the aligner are ever in flight, however often the button is pressed. *)
C9_OneCallAtATimeInGridOrder ==
    /\ [](Cardinality(CallsInFlight) <= 1)
    /\ [][\A r \in RunIds :
            StartsCall(r) =>
                \/ runs[r].pc = "idle" /\ runs'[r].i = 0
                \/ /\ runs[r].pc = "sleeping"
                   /\ runs'[r].i = runs[r].i + 1
                   /\ runs'[r].i < runs[r].grid.cols * runs[r].grid.rows
                   /\ runs[r].newOffsets[runs[r].i + 1] = ExpectedOffset(r, runs[r].i)]_vars
    /\ [][\A r \in RunIds :
            (runs[r].pc = "aligning" /\ runs'[r].pc \notin {"aligning", "rejected"}) =>
                /\ runs'[r].pc = "sleeping"
                /\ runs'[r].i = runs[r].i
                /\ Len(patchOffsets') > runs[r].i
                /\ patchOffsets'[runs[r].i + 1] = ExpectedOffset(r, runs[r].i)]_vars
    /\ [][\A r \in RunIds :
            (runs[r].pc # "idle" /\ runs'[r].pc = "idle") =>
                /\ runs[r].pc = "sleeping"
                /\ runs[r].i = runs[r].grid.cols * runs[r].grid.rows - 1]_vars

C9_Witness ==
    /\ presses = 2
    /\ \E r \in RunIds :
          /\ runs[r].pc = "aligning"
          /\ runs[r].i = runs[r].grid.cols * runs[r].grid.rows - 1
          /\ runs[r].i >= 1
          /\ patchOffsets[runs[r].i] = ExpectedOffset(r, runs[r].i - 1)

(* C10.  While a batch run is in progress nothing but the run itself       *)
(* writes patchOffsets: whenever the array changes while isAligning is     *)
(* set, the step is a run storing the offset of the call that returned.    *)
C10_NoOtherWriterDuringBatch ==
    [][(isAligning /\ patchOffsets' # patchOffsets) =>
          \E r \in RunIds : runs[r].pc = "aligning" /\ runs'[r].pc = "sleeping"]_vars

----------------------------------------------------------------------------
(* What a batch run is to do with a patch that cannot be aligned *)

\* the search region of run r is smaller than the template in an axis
RunInfeasible(r) ==
    \/ FloorRawPx(runs[r].face.w, runs[r].width)
           < TemplateSide(DefaultAnchor.w, runs[r].grid.patchW, runs[r].width, DefaultScale)
    \/ FloorRawPx(runs[r].face.h, runs[r].width)
           < TemplateSide(DefaultAnchor.h, runs[r].grid.patchH, runs[r].width, DefaultScale)

PatchesOf(r) == runs[r].grid.cols * runs[r].grid.rows

(* C11.  A call for a patch whose search region is smaller than the        *)
(* template never aborts the run: the call ends with the zero offset       *)
(* stored at the patch's index and the run going on to its pause, from     *)
(* which the later patches and the completion follow.                      *)
C11_InfeasiblePatchNeverAborts ==
    [][\A r \in RunIds :
          (runs[r].pc = "aligning" /\ RunInfeasible(r) /\ runs'[r] # runs[r]) =>
              /\ runs'[r].pc = "sleeping"
              /\ Len(patchOffsets') > runs[r].i
              /\ patchOffsets'[runs[r].i + 1] = [dx |-> 0, dy |-> 0]]_vars

(* C12.  During a run the progress reported never decreases, the           *)
(* completion (isAligning false, progress 100) comes only from the pause   *)
(* after the last patch's offset has been stored, and every run that has   *)
(* started comes to its completion.                                        *)
C12_ProgressThenCompletion ==
    /\ [][(isAligning /\ isAligning') => alignProgress' >= alignProgress]_vars
    /\ [][(isAligning /\ ~isAligning') =>
            /\ alignProgress' = 100
            /\ \E r \in RunIds :
                  /\ runs[r].pc = "sleeping"
                  /\ runs[r].i = PatchesOf(r) - 1
                  /\ Len(runs[r].newOffsets) >= PatchesOf(r)
                  /\ patchOffsets = runs[r].newOffsets
                  /\ runs'[r].pc = "idle"]_vars
    /\ [](isAligning => <>(~isAligning /\ alignProgress = 100))

----------------------------------------------------------------------------
(* What the patches of a grid are *)

(* C13.  The patches of a grid with rows >= 1 and cols >= 1 are rows*cols   *)
(* rectangles in row-major order: the one at index i has its centre at     *)
(* (originX + (i mod cols)*spacingX, originY + (i div cols)*spacingY) and  *)
(* the size (patchW, patchH); the default grid gives 8 patches with the    *)
(* one at index 5 equal to (290, 940, 180, 180).                           *)
C13_RowMajorPatches ==
    /\ (gridConfig.rows >= 1 /\ gridConfig.cols >= 1) =>
          /\ Len(currentPatches) = gridConfig.rows * gridConfig.cols
          /\ \A i \in 0..(gridConfig.rows * gridConfig.cols - 1) :
                /\ 2 * currentPatches[i + 1].x =
                      2 * (gridConfig.originX + (i % gridConfig.cols) * gridConfig.spacingX)
                          - gridConfig.patchW
                /\ 2 * currentPatches[i + 1].y =
                      2 * (gridConfig.originY + (i \div gridConfig.cols) * gridConfig.spacingY)
                          - gridConfig.patchH
                /\ currentPatches[i + 1].w = gridConfig.patchW
                /\ currentPatches[i + 1].h = gridConfig.patchH
    /\ (gridConfig.originX = 200 /\ gridConfig.originY = 850
          /\ gridConfig.spacingX = 180 /\ gridConfig.spacingY = 180
          /\ gridConfig.patchW = 180 /\ gridConfig.patchH = 180
          /\ gridConfig.cols = 4 /\ gridConfig.rows = 2) =>
          /\ Len(currentPatches) = 8
          /\ currentPatches[6] = [x |-> 290, y |-> 940, w |-> 180, h |-> 180]

C13_Witness ==
    /\ gridConfig.cols = 2 /\ gridConfig.rows = 2
    /\ gridConfig.spacingX # gridConfig.spacingY
    /\ gridConfig.patchW # gridConfig.patchH
    /\ gridConfig.originX = 100
    /\ Len(currentPatches) = 4
    /\ currentPatches[3].x < currentPatches[2].x
    /\ currentPatches[3].y > currentPatches[2].y

\* the overlay of the last render of the grid workflow, when it drew one
GridOverlayDrawn ==
    /\ lastRender.by \in {"draw", "performExport"}
    /\ Len(lastRender.ops) = 3

Near(a, b) == Abs(a - b) < Px(1)

(* C14: the overlay of a patch is drawn with its origin at the centre of   *)
(* the target rectangle, less half the destination size, plus the          *)
(* calibration offset and the patch's offset, both brought to raw pixels   *)
(* with the image width; the destination size is the patch size in raw     *)
(* pixels times the calibration scale.                                     *)
C14_OverlayCentredOnTarget ==
    GridOverlayDrawn =>
        LET p == currentPatches[lastRender.idx + 1]
            off == OffsetAt(patchOffsets, lastRender.idx)
            destW == (toRawPx(p.w, naturalWidth) * calibration.scale) \div 10
            destH == (toRawPx(p.h, naturalWidth) * calibration.scale) \div 10
            centerX == toRawPx(2 * mainFace.x + mainFace.w, naturalWidth) \div 2
            centerY == toRawPx(2 * mainFace.y + mainFace.h, naturalWidth) \div 2
            dst == lastRender.ops[3].dst
        IN  /\ Near(dst.w, destW)
            /\ Near(dst.h, destH)
            /\ Near(dst.x, centerX - destW \div 2 + toRawPx(calibration.offsetX, naturalWidth)
                              + toRawPx(off.dx, naturalWidth))
            /\ Near(dst.y, centerY - destH \div 2 + toRawPx(calibration.offsetY, naturalWidth)
                              + toRawPx(off.dy, naturalWidth))

(* C15: a final render clears exactly the target rectangle as the user     *)
(* left it, in raw pixels, whatever the calibration and the patch's offset *)
(* are, after the base image is drawn and before the overlay is.           *)
C15_MaskIsTheTargetRect ==
    (GridOverlayDrawn /\ lastRender.final) =>
        /\ lastRender.ops[1].op = "drawImage"
        /\ lastRender.ops[2].op = "clearRect"
        /\ lastRender.ops[3].op = "drawImage"
        /\ Near(lastRender.ops[2].dst.x, toRawPx(mainFace.x, naturalWidth))
        /\ Near(lastRender.ops[2].dst.y, toRawPx(mainFace.y, naturalWidth))
        /\ Near(lastRender.ops[2].dst.w, toRawPx(mainFace.w, naturalWidth))
        /\ Near(lastRender.ops[2].dst.h, toRawPx(mainFace.h, naturalWidth))

\* the last render of the detector workflow, when it drew an overlay
StudioOverlayDrawn ==
    /\ lastRender.by \in {"preview", "downloadAll"}
    /\ lastRender.ops # <<>>
    /\ lastRender.ops[Len(lastRender.ops)].op = "drawImage"
    /\ lastRender.ops[Len(lastRender.ops)].src # DrawBase(naturalWidth, naturalHeight).src

\* the clearRect operations of the last render, the wipe of the whole canvas aside
MaskClears ==
    {k \in 1..Len(lastRender.ops) :
        /\ lastRender.ops[k].op = "clearRect"
        /\ lastRender.ops[k] # ClearRect(0, 0, Px(naturalWidth), Px(naturalHeight))}

(* C16: every exported image has its overlay drawn with alpha 1.0 whatever *)
(* the opacity slider says; the slider's value is used in the preview      *)
(* only, and the target rectangle is cleared in final renders only.        *)
C16_FinalRenderIsOpaque ==
    StudioOverlayDrawn =>
        /\ lastRender.final => lastRender.ops[Len(lastRender.ops)].alpha = 100
        /\ ~lastRender.final =>
              /\ lastRender.ops[Len(lastRender.ops)].alpha = overlayOpacity
              /\ MaskClears = {}

(* C19: every normalized value, vertical ones included, is brought to raw  *)
(* pixels as (v / 1000) * image width; the image height is never used.     *)
(* Stated of the detector workflow's renders: the source rectangle of the  *)
(* overlay, its destination size and the cleared rectangle.                *)
C19_WidthConvertsEveryAxis ==
    StudioOverlayDrawn =>
        LET patch == getEffectivePatch(StudioClosure, lastRender.idx)
            overlay == lastRender.ops[Len(lastRender.ops)]
        IN  /\ overlay.src.x = patch.x * naturalWidth * 10
            /\ overlay.src.w = patch.w * naturalWidth * 10
            /\ overlay.src.y = patch.y * naturalWidth * 10
            /\ overlay.src.h = patch.h * naturalWidth * 10
            /\ overlay.dst.h = (patch.h * naturalWidth * 10 * studioCalibration.scale) \div 10
            /\ \A k \in MaskClears :
                  /\ lastRender.ops[k].dst.y = toRawPx(targetFace.y, naturalWidth)
                  /\ lastRender.ops[k].dst.h = toRawPx(targetFace.h, naturalWidth)

\* the files an export-all run of the grid workflow has handed over, in order
FilesOf(r) == SelectSeq(downloads, LAMBDA d : d.run = r)

\* Math.floor((v / 1000) * width), in units of 1/20000 px
FloorRaw(val, width) == Px((val * width) \div 1000)

(* C17: all the images of one export-all run have the same canvas, the raw *)
(* bounds of mainBody as it was when the run started, even when the user   *)
(* edits mainBody, the grid or the calibration between two items.          *)
C17_ExportBoundsFixedPerRun ==
    \A r \in 1..Len(exportRuns) :
        LET body == exportRuns[r].closure.body
            width == exportRuns[r].closure.width
        IN  \A k \in 1..Len(FilesOf(r)) :
                /\ FilesOf(r)[k].file.canvas = FilesOf(r)[1].file.canvas
                /\ FilesOf(r)[k].file.canvas.x = FloorRaw(body.x, width)
                /\ FilesOf(r)[k].file.canvas.y = FloorRaw(body.y, width)
                /\ FilesOf(r)[k].file.canvas.w = Max(Px(1), FloorRaw(body.w, width))
                /\ FilesOf(r)[k].file.canvas.h = Max(Px(1), FloorRaw(body.h, width))

\* a file of a run was handed over after the user had dragged the body frame
C17_Witness ==
    \E r \in 1..Len(exportRuns) :
        \E k \in 2..Len(FilesOf(r)) :
            /\ FilesOf(r)[k].edits > exportRuns[r].edits
            /\ mainBody # exportRuns[r].closure.body
            /\ \/ FloorRaw(mainBody.x, naturalWidth) # FilesOf(r)[k].file.canvas.x
               \/ FloorRaw(mainBody.w, naturalWidth) # FilesOf(r)[k].file.canvas.w

\* the offset the run started with at index i, zero where the array has none
StartOffset(r, i) ==
    IF i < Len(exportRuns[r].closure.patchOffsets)
    THEN exportRuns[r].closure.patchOffsets[i + 1]
    ELSE [dx |-> 0, dy |-> 0]

\* the patches of the grid the run started with
StartCount(r) == exportRuns[r].closure.grid.cols * exportRuns[r].closure.grid.rows

(* C18: an export-all run over n patches hands over exactly n files, for   *)
(* the indices 0, 1, ..., n-1 in this order, none skipped and none twice;  *)
(* the file of index i is named <prefix>_<i+1>.<ext>, so the names of one  *)
(* run are distinct, and it is rendered with the offset of patch i.        *)
C18_OneFilePerPatchInOrder ==
    \A r \in 1..Len(exportRuns) :
        LET files == FilesOf(r)
            c == exportRuns[r].closure
        IN  /\ Len(files) <= StartCount(r)
            /\ exportRuns[r].pc = "done" => Len(files) = StartCount(r)
            /\ exportRuns[r].pc = "sleeping" => Len(files) = exportRuns[r].i
            /\ \A k \in 1..Len(files) :
                  /\ files[k].idx = k - 1
                  /\ files[k].file.name =
                        [prefix |-> "FGO_Sprite_Var", number |-> k, ext |-> "png"]
                  /\ \A j \in 1..Len(files) :
                        files[j].file.name = files[k].file.name => j = k
                  /\ Len(files[k].file.ops) = 3
                  /\ Near(files[k].file.ops[3].dst.x,
                          toRawPx(c.face.x + StartOffset(r, k - 1).dx + c.calibration.offsetX,
                                  c.width))
                  /\ Near(files[k].file.ops[3].dst.y,
                          toRawPx(c.face.y + StartOffset(r, k - 1).dy + c.calibration.offsetY,
                                  c.width))

\* a run over three patches or more has ended, a file of the "export current"
\* button came between two of its files, and the offsets it started with
\* differ from patch to patch and from the ones the state holds now
C18_Witness ==
    \E r \in 1..Len(exportRuns) :
        /\ exportRuns[r].pc = "done"
        /\ StartCount(r) >= 3
        /\ Len(FilesOf(r)) = StartCount(r)
        /\ \E k \in 2..(Len(downloads) - 1) :
              /\ downloads[k].run = 0
              /\ downloads[k - 1].run = r
              /\ downloads[k + 1].run = r
        /\ naturalWidth = 1000
        /\ StartOffset(r, 0) # StartOffset(r, 1)
        /\ patchOffsets # exportRuns[r].closure.patchOffsets

\* the value came back to the unit it started in
BroughtBack == Len(trip) >= 3

\* |a - b| and |a|, both on the scale of the smaller of the two exponents
Scaled(x, floor) == x.s * x.m * 2^(x.e - floor)

Gap(a, b) ==
    LET floor == IF a.e <= b.e THEN a.e ELSE b.e
    IN  Abs(Scaled(a, floor) - Scaled(b, floor))

Size(a, b) ==
    LET floor == IF a.e <= b.e THEN a.e ELSE b.e
    IN  Abs(Scaled(a, floor))

(* C20, as stated: a value converted to the other unit and back is the     *)
(* value itself, for every value and every image width; in particular the  *)
(* raw offset of the aligner, stored as (raw / W) * 1000 and read back     *)
(* with toRawPx, is the raw offset returned.                               *)
C20_RoundTripIsIdentity ==
    BroughtBack => trip[3].value = trip[1].value

(* C20, amended: the value that comes back differs from the value that     *)
(* went by a few units in the last place at most: the relative error is    *)
(* below 5 * 2^-Precision, four roundings having been made.                *)
C20_RoundTripWithinEpsilon ==
    BroughtBack =>
        /\ trip[3].unit = trip[1].unit
        /\ trip[3].value.s = trip[1].value.s \/ trip[1].value.m = 0
        /\ Gap(trip[3].value, trip[1].value) * 2^Precision
              <= 5 * Size(trip[1].value, trip[3].value)

\* a raw offset of the aligner came back changed in its last place
C20_Witness ==
    /\ BroughtBack
    /\ trip[1].unit = "raw"
    /\ trip[3].value # trip[1].value
    /\ trip[3].value.e = trip[1].value.e
    /\ Abs(trip[3].value.m - trip[1].value.m) = 1

\* the call passed the feasibility test of lines 93-96
Feasible == pc \in {"row", "suspended", "done"}

\* the template pixels the two sampling loops visit and score
SampledCells ==
    {c \in (0..(Max(1, RoundHalf(anchorInPatchPx.aw * targetScale)) - 1))
             \X (0..(Max(1, RoundHalf(anchorInPatchPx.ah * targetScale)) - 1)) :
        c[1] % 2 = 0 /\ c[2] % 2 = 0}

(* C24: in a feasible call every read of the search buffer is inside it,   *)
(* 0 <= px + dx < searchW and 0 <= py + dy < searchH for every sampled     *)
(* template pixel and every offset evaluated, and the winning offset is in *)
(* 0..searchW - tplW by 0..searchH - tplH, with tplW and tplH being        *)
(* max(1, round(aw * scale)) and max(1, round(ah * scale)).                *)
C24_ReadsInsideSearchBuffer ==
    Feasible =>
        LET tw == Max(1, RoundHalf(anchorInPatchPx.aw * targetScale))
            th == Max(1, RoundHalf(anchorInPatchPx.ah * targetScale))
        IN  /\ \A o \in DOMAIN scores :
                  /\ 0 <= o[1] /\ o[1] <= searchW - tw
                  /\ 0 <= o[2] /\ o[2] <= searchH - th
                  /\ \A c \in SampledCells :
                        /\ 0 <= c[1] + o[1] /\ c[1] + o[1] < searchW
                        /\ 0 <= c[2] + o[2] /\ c[2] + o[2] < searchH
                        /\ (c[2] + o[2]) * searchW + (c[1] + o[1]) \in DOMAIN searchData
            /\ 0 <= bestX /\ bestX <= searchW - tw
            /\ 0 <= bestY /\ bestY <= searchH - th

\* the call ended with the winner in the last column and the last row it can
\* be in, where the last sampled template pixel is read from the last column
\* and the last row of the search buffer
C24_Witness ==
    /\ pc = "done"
    /\ limitX > 0
    /\ bestX = limitX /\ bestY = limitY
    /\ <<bestX, bestY>> \in DOMAIN scores
    /\ \E c \in SampledCells :
          /\ c[1] + bestX = searchW - 1
          /\ c[2] + bestY = searchH - 1
          /\ AlphaCounts(tplData[c[2] * tplW + c[1]][4])

\* no FileReader, no image decode and no batch run has a callback to come
NothingPending ==
    /\ readers = {}
    /\ images = {}
    /\ \A r \in 1..MaxRuns : runs[r].pc \in {"idle", "rejected"}

(* C25: whenever no handler and no effect is pending, patchOffsets has one *)
(* entry per patch of the current grid, rows * cols in all, whatever image *)
(* loads, grid edits and batch runs came before, a grid edit made during a *)
(* batch run included.                                                     *)
C25_OneOffsetPerPatch ==
    NothingPending => Len(patchOffsets) = gridConfig.rows * gridConfig.cols

\* the entries of patchOffsets that a call of the aligner computed
AlignedEntries == {k \in 1..Len(patchOffsets) : "img" \in DOMAIN patchOffsets[k]}

(* C26: once a new image is loaded or the grid is changed, no offset that  *)
(* was computed from the image or the grid of before is stored or used: a  *)
(* batch run still in flight writes nothing into the offsets of the new    *)
(* session.  Every stored offset the aligner computed was computed from    *)
(* the image shown and the grid in force.                                  *)
C26_NoOffsetOfAnEarlierSession ==
    \A k \in AlignedEntries :
        /\ patchOffsets[k].img = imgElement
        /\ patchOffsets[k].grid = gridConfig

(* C27.  Every batch run that sets isAligning to true sets it back to       *)
(* false later, whatever the aligner returns or throws: the batch-align    *)
(* button, disabled while isAligning, is never disabled for ever.          *)
C27_ButtonEnabledAgain == isAligning ~> ~isAligning

\* w > 0 and h > 0, in normalized units and in the pixels of the image shown
Positive(rect) ==
    /\ rect.w > 0 /\ rect.h > 0
    /\ toRawPx(rect.w, naturalWidth) > 0 /\ toRawPx(rect.h, naturalWidth) > 0

\* the rectangles the renders, the batch alignment and the exports read
RectanglesUsed ==
    {mainFace, mainBody, anchorRect}
        \cup {GridPatches(gridConfig)[k] : k \in 1..PatchCount(gridConfig)}

(* C23.  After any sequence of interactive edits (origin, spacing, patch   *)
(* size, face and body move and resize, the rows and cols inputs, the      *)
(* anchor) every rectangle the renders, the alignment and the exports use  *)
(* has w > 0 and h > 0, the grid has rows >= 1 and cols >= 1, and the      *)
(* match anchor lies inside [0, 1000 - w] x [0, 1000 - h].                 *)
C23_RectanglesStayValid ==
    analysis # 0 =>
        /\ \A rect \in RectanglesUsed : Positive(rect)
        /\ gridConfig.patchW > 0 /\ gridConfig.patchH > 0
        /\ gridConfig.rows >= 1 /\ gridConfig.cols >= 1
        /\ Len(GridPatches(gridConfig)) = gridConfig.rows * gridConfig.cols
        /\ anchorRect.x >= 0 /\ anchorRect.x <= 1000 - anchorRect.w
        /\ anchorRect.y >= 0 /\ anchorRect.y <= 1000 - anchorRect.h

\* the pointer left the patch on the right and above, the ROI and the patch
\* were shrunk below their least sizes and dragged to the image's corner
C23_Witness ==
    /\ analysis # 0
    /\ anchorRect.x = 1000 - anchorRect.w /\ anchorRect.y = 0
    /\ mainFace.w = MinFaceSize /\ mainFace.h = MinFaceSize
    /\ mainFace.x < 100
    /\ gridConfig.patchW = 10

\* a step of a batch run, of an export-all run
BatchRunStep == runs' # runs
ExportRunStep == exportRuns' # exportRuns

\* the layout, the calibration, the anchor and the AnalysisResult
FrameOfRuns == <<gridConfig, calibration, anchorRect, analysis, mainFace, mainBody>>

(* C28.  A step of a batch run changes nothing but patchOffsets, the       *)
(* selected index and the run's progress flags; a step of an export-all    *)
(* run changes nothing but its own progress flags.  Neither changes        *)
(* gridConfig, the calibration, the anchor rectangle or the                *)
(* AnalysisResult, and an export step never changes patchOffsets.          *)
C28_RunsKeepTheFrame ==
    [][/\ BatchRunStep =>
            /\ UNCHANGED FrameOfRuns
            /\ UNCHANGED <<baseImage, imgElement, currentStep, previewAlpha,
                           isExporting, exportProgress>>
       /\ ExportRunStep =>
            /\ UNCHANGED FrameOfRuns
            /\ UNCHANGED <<patchOffsets, selectedIdx, isAligning, alignProgress>>
            /\ UNCHANGED <<baseImage, imgElement, currentStep, previewAlpha>>]_vars

\* an export-all run has handed out files and a batch run has stored an
\* offset while the other run was in flight, after the user had moved the
\* anchor
C28_Witness ==
    /\ downloads # <<>>
    /\ \E r \in 1..Len(exportRuns) : exportRuns[r].pc = "sleeping"
    /\ \E r \in 1..MaxRuns : runs[r].pc = "sleeping" /\ runs[r].i >= 1
    /\ isAligning /\ isExporting
    /\ AlignedEntries # {}
    /\ anchorRect # DefaultAnchor

\* the results the detector installed for image k
InstalledFor(k) == {n \in 1..Len(analysisLog) : analysisLog[n] = k}

(* C21.  For each loaded image the AnalysisResult is produced once by the   *)
(* detector: no second detector run installs a result for the same image.  *)
C21_OneResultPerImage ==
    \A k \in 1..MaxUploads : Cardinality(InstalledFor(k)) <= 1

\* the call of the detector is rejected in this step
RejectedNow ==
    /\ call'.pc = "rejected"
    /\ callsMade' # callsMade \/ call.pc # "rejected"

FallbackWords == {"404", "not found", "permission"}

(* C29.  One call of analyzeFgoSpriteSheet issues at most two model        *)
(* requests, the first to the pro model; the second, to the flash model,   *)
(* is issued only when the first request was rejected with a not-found,    *)
(* 404 or permission error; a failure of the second request is handed to   *)
(* the caller with no further request, as is every other error of the      *)
(* first.                                                                  *)
C29_FallbackOnlyAfterNotFound ==
    /\ Len(call.requests) <= 2
    /\ Len(call.requests) >= 1 => call.requests[1] = ProModel
    /\ Len(call.requests) = 2 =>
          /\ call.requests[2] = FlashModel
          /\ call.firstError.kind = "request"
          /\ call.firstError.mentions \cap FallbackWords # {}
    /\ (call.pc = "rejected" /\ Len(call.requests) = 2) => call.useFlash

\* no upload is on its way
Loaded == readers = {} /\ images = {}

(* C30.  In the detector workflow the AnalysisResult stored is the one of  *)
(* the image loaded, and steps 2 and 3 are active only while there is an   *)
(* AnalysisResult: an answer of the detector or a delayed step change that *)
(* comes after a new upload installs nothing of the image before and       *)
(* leaves no step 2 without analysis.                                      *)
C30_ResultOfTheImageShown ==
    /\ (Loaded /\ analysis # 0) => (analysis = baseImage /\ analysis = imgElement)
    /\ (Loaded /\ workflowStep \in {2, 3}) => analysis # 0

============================================================================
